---- MODULE Spec2Model ----
(***************************************************************************)
(* Model of the inspector-stream reconciler of Ironfell's UI:              *)
(* SystemState (src/src-ui/system_state.ts).  The Catalog is the three     *)
(* maps components / registry / componentNameToIdMap, the Mirror is the    *)
(* four maps entities / childParentMap / entityNames /                     *)
(* componentValueCache.  process_update applies the items of a batch in    *)
(* array order; one step of the model is one iteration of that loop.       *)
(* Spec follows the items of the stream whatever the batches are;          *)
(* BatchSpec follows the calls of process_update and the loop over the     *)
(* batch of each call.  nEvents, last, before, writes, ref, applied and    *)
(* received are history variables.                                         *)
(***************************************************************************)
EXTENDS Integers, Sequences, FiniteSets, TLC

VARIABLES
    components,             \* Map<ComponentId, ComponentInfo & {id}>
    registry,               \* Map<TypeName, descriptor>
    componentNameToIdMap,   \* Map<TypeName, ComponentId>
    entities,               \* Map<EntityId, Map<ComponentId, {value, disabled}>>
    childParentMap,         \* Map<EntityId, EntityId | null>
    entityNames,            \* Map<EntityId, string>
    componentValueCache,    \* Map<EntityId, Map<ComponentId, string>>
    nEvents,                \* items processed so far
    last,                   \* the item processed by the latest step
    before,                 \* the Mirror as the latest step found it
    writes,                 \* per component: slot mutations done by the latest step
    ref,                    \* entities as kept by the cache-free reference reconciler
    pending,                \* process_update: the items of `update` still to apply
    applied,                \* the items applied since the first call, in order
    received,               \* the batches process_update was called with, in order
    bridge,                 \* the way of an inspector update from the engine to process_update
    worker,                 \* the frame loop of IronWorker / MainThreadAdapter
    manager                 \* ControllerManagerClass and the controllers it constructs

catalog == <<components, registry, componentNameToIdMap>>
mirror  == <<entities, childParentMap, entityNames, componentValueCache>>
vars    == <<components, registry, componentNameToIdMap, entities, childParentMap,
             entityNames, componentValueCache, nEvents, last, before, writes, ref,
             pending, applied, received, bridge, worker, manager>>
host    == <<bridge, worker, manager>>

-----------------------------------------------------------------------------
(* Bounds of the model *)

MaxEvents == 3      \* stream items processed in one behaviour
MaxBatch  == 2      \* items in one batch, and calls of process_update

-----------------------------------------------------------------------------
(* JSON values.  A value is a tagged literal: t is the JSON type, s the     *)
(* literal's text.  null and undefined are both Null.                      *)

Null   == [t |-> "null", s |-> ""]
Str(x) == [t |-> "string", s |-> x]
Num(x) == [t |-> "number", s |-> x]

\* JavaScript truthiness (`if (v)`, `a || b`)
Truthy(v) ==
    CASE v.t = "null"   -> FALSE
      [] v.t = "string" -> v.s # ""
      [] v.t = "number" -> v.s \notin {"0", "-0"}
      [] OTHER          -> TRUE

\* JSON.stringify of a value
JSONStringify(v) ==
    CASE v.t = "null"   -> "null"
      [] v.t = "string" -> "\"" \o v.s \o "\""
      [] v.t = "number" -> (IF v.s = "-0" THEN "0" ELSE v.s)
      [] OTHER          -> v.s

\* `undefined` as the result of Map.get on a ComponentId-valued map
Undefined == -1

-----------------------------------------------------------------------------
(* Maps.  A Map whose iteration order is never read is a function; Map.set  *)
(* and Map.delete are MapSet and MapDelete.                                 *)

MapSet(m, k, v) == [x \in (DOMAIN m) \cup {k} |-> IF x = k THEN v ELSE m[x]]
MapDelete(m, k) == [x \in (DOMAIN m) \ {k} |-> m[x]]
MapGetId(m, k)  == IF k \in DOMAIN m THEN m[k] ELSE Undefined
EmptyMap        == << >>

(* An entity's component Map is iterated by getEntityName, so it keeps its  *)
(* insertion order: a sequence of [id, value, disabled] without repeated id *)

RecHas(rec, c)  == \E i \in 1..Len(rec) : rec[i].id = c
RecIdx(rec, c)  == CHOOSE i \in 1..Len(rec) : rec[i].id = c
RecGet(rec, c)  == rec[RecIdx(rec, c)]
RecKeys(rec)    == [i \in 1..Len(rec) |-> rec[i].id]
RecKeySet(rec)  == {rec[i].id : i \in 1..Len(rec)}
\* Map.set: an existing key keeps its position, a new key is appended
RecSet(rec, c, value, disabled) ==
    LET slot == [id |-> c, value |-> value, disabled |-> disabled]
    IN  IF RecHas(rec, c) THEN [rec EXCEPT ![RecIdx(rec, c)] = slot]
        ELSE Append(rec, slot)
\* Map.delete
RecDelete(rec, c) == SelectSeq(rec, LAMBDA slot : slot.id # c)
\* the record as a function ComponentId -> {value, disabled}
RecSlots(rec) ==
    [c \in RecKeySet(rec) |->
        [value |-> RecGet(rec, c).value, disabled |-> RecGet(rec, c).disabled]]

-----------------------------------------------------------------------------
(* Engine type names (types/bevy.ts: bevyTypes, bevyCrates, COMMON_NAMES)   *)

PARENT           == "bevy_ecs::hierarchy::ChildOf"
CHILDREN         == "bevy_ecs::hierarchy::Children"
NAME             == "bevy_ecs::name::Name"
OBSERVER         == "bevy_ecs::observer::Observer"
SYSTEM_ID_MARKER == "bevy_ecs::system::SystemIdMarker"
WINDOW           == "bevy_window::window::Window"
CAMERA           == "bevy_render::camera::camera::Camera"
PLAYER           == "game::Player"

\* the engine's own crates
bevyCrates == <<"bevy_ecs", "bevy_window", "bevy_render">>

\* the priority list of common components: a static label, or (fn) a
\* formatter of the component's value that throws when the value is missing
COMMON_NAMES ==
    << [name |-> WINDOW, label |-> "Window", fn |-> TRUE],
       [name |-> CAMERA, label |-> "Camera", fn |-> FALSE] >>

\* the crate a type name starts with
TypeCrate ==
    (PARENT :> "bevy_ecs") @@ (CHILDREN :> "bevy_ecs") @@ (NAME :> "bevy_ecs") @@
    (OBSERVER :> "bevy_ecs") @@ (SYSTEM_ID_MARKER :> "bevy_ecs") @@
    (WINDOW :> "bevy_window") @@ (CAMERA :> "bevy_render") @@ (PLAYER :> "game")

\* name.startsWith(`${crate}::`)
StartsWithCrate(name, crate) == name \in DOMAIN TypeCrate /\ TypeCrate[name] = crate

\* outcome of a formatter call: a name, or Thrown
Thrown   == [t |-> "thrown", s |-> ""]
NoName   == [t |-> "none", s |-> ""]
CommonFormat(entry, value) ==
    IF ~entry.fn THEN Str(entry.label)
    ELSE IF value = Null THEN Thrown
    ELSE Str(entry.label \o " " \o value.s)

-----------------------------------------------------------------------------
(* Catalog *)

\* mutant: the registry is rebuilt from the list of the event
setRegistry_Replaces(reg, types) ==
    [n \in {types[i][1] : i \in 1..Len(types)} |->
        types[CHOOSE i \in 1..Len(types) :
                 types[i][1] = n /\ \A j \in (i + 1)..Len(types) : types[j][1] # n][2]]

\* setRegistry: types is a sequence of <<name, descriptor>>
RECURSIVE setRegistry(_, _)
setRegistry(reg, types) ==
    IF types = << >> THEN reg
    ELSE setRegistry(MapSet(reg, Head(types)[1], Head(types)[2]), Tail(types))

\* setComponents: returns the new components and componentNameToIdMap
RECURSIVE setComponents(_, _, _)
setComponents(comps, nameToId, defs) ==
    IF defs = << >> THEN [components |-> comps, componentNameToIdMap |-> nameToId]
    ELSE LET component == Head(defs)
         IN  setComponents(MapSet(comps, component.id, component),
                           MapSet(nameToId, component.name, component.id),
                           Tail(defs))

\* mutant: short_name is taken from the descriptor alone
getComponentName_NoFallback(id) ==
    IF id \notin DOMAIN components THEN [name |-> Null, short_name |-> Null]
    ELSE LET info == components[id]
         IN  [name |-> Str(info.name),
              short_name |-> IF info.name \in DOMAIN registry
                             THEN registry[info.name].short_name
                             ELSE Null]

\* getComponentName: name and short_name, Null where undefined
getComponentName(id) ==
    IF id \notin DOMAIN components THEN [name |-> Null, short_name |-> Null]
    ELSE LET info == components[id]
             registered == info.name \in DOMAIN registry
         IN  [name |-> Str(info.name),
              short_name |-> IF registered /\ Truthy(registry[info.name].short_name)
                             THEN registry[info.name].short_name
                             ELSE Str(info.name)]

-----------------------------------------------------------------------------
(* Display Name Resolver *)

\* Array.prototype.sort() without comparator: by the decimal text of each id
RECURSIVE Digits(_)
Digits(n) == IF n < 10 THEN <<n>> ELSE Append(Digits(n \div 10), n % 10)

TextLess(x, y) ==
    \E k \in 1..(Len(x) + 1) :
        /\ k <= Len(y)
        /\ \A j \in 1..(k - 1) : x[j] = y[j]
        /\ (k = Len(x) + 1 \/ x[k] < y[k])

SortedKeys(rec) ==
    LET keys == RecKeySet(rec)
        rank(c) == Cardinality({d \in keys : TextLess(Digits(d), Digits(c))})
    IN  [k \in 1..Cardinality(keys) |-> CHOOSE c \in keys : rank(c) = k - 1]

\* the first of the indices at which a loop's test succeeds, 0 when none does
FirstIdx(hits) ==
    IF hits = {} THEN 0 ELSE CHOOSE i \in hits : \A j \in hits : i <= j

\* step 1: the name component
NameStep(rec) ==
    LET nameComponentId == MapGetId(componentNameToIdMap, NAME)
    IN  IF nameComponentId # Undefined /\ RecHas(rec, nameComponentId)
           /\ Truthy(RecGet(rec, nameComponentId).value)
        THEN RecGet(rec, nameComponentId).value
        ELSE NoName

\* step 2: the first common component that is present; a throwing formatter
\* leaves the loop (break)
CommonStep(rec) ==
    LET IsPresent(entry) ==
            /\ MapGetId(componentNameToIdMap, entry.name) # Undefined
            /\ RecHas(rec, componentNameToIdMap[entry.name])
        i == FirstIdx({k \in 1..Len(COMMON_NAMES) : IsPresent(COMMON_NAMES[k])})
    IN  IF i = 0 THEN NoName
        ELSE LET entry == COMMON_NAMES[i]
                 r == CommonFormat(entry, RecGet(rec, componentNameToIdMap[entry.name]).value)
             IN  IF r = Thrown THEN NoName ELSE r

\* step 3: the first component, in the record's order, outside the engine's crates
IsBevyType(name) ==
    name # Null /\ \E k \in 1..Len(bevyCrates) : StartsWithCrate(name.s, bevyCrates[k])

\* mutant: the test for the engine's crates is left out
NonBevyStep_AnyResolvable(rec) ==
    LET Suits(componentId) == Truthy(getComponentName(componentId).short_name)
        i == FirstIdx({k \in 1..Len(rec) : Suits(rec[k].id)})
    IN  IF i = 0 THEN NoName ELSE getComponentName(rec[i].id).short_name

NonBevyStep(rec) ==
    LET Suits(componentId) ==
            /\ Truthy(getComponentName(componentId).short_name)
            /\ ~IsBevyType(getComponentName(componentId).name)
        i == FirstIdx({k \in 1..Len(rec) : Suits(rec[k].id)})
    IN  IF i = 0 THEN NoName ELSE getComponentName(rec[i].id).short_name

\* step 4: the first component of the sorted keys that is not Parent / Children
SortedStep(rec) ==
    LET Suits(componentId) ==
            /\ Truthy(getComponentName(componentId).short_name)
            /\ getComponentName(componentId).name # Str(PARENT)
            /\ getComponentName(componentId).name # Str(CHILDREN)
        keys == SortedKeys(rec)
        i == FirstIdx({k \in 1..Len(keys) : Suits(keys[k])})
    IN  IF i = 0 THEN NoName ELSE getComponentName(keys[i]).short_name

\* mutant: the scan for a component outside the engine's crates comes first
ResolveName_NonBevyFirst(rec) ==
    IF NonBevyStep(rec) # NoName THEN NonBevyStep(rec)
    ELSE IF NameStep(rec) # NoName THEN NameStep(rec)
    ELSE IF CommonStep(rec) # NoName THEN CommonStep(rec)
    ELSE IF SortedStep(rec) # NoName THEN SortedStep(rec)
    ELSE Str("Entity")

\* the resolver on a record
ResolveName(rec) ==
    IF NameStep(rec) # NoName THEN NameStep(rec)
    ELSE IF CommonStep(rec) # NoName THEN CommonStep(rec)
    ELSE IF NonBevyStep(rec) # NoName THEN NonBevyStep(rec)
    ELSE IF SortedStep(rec) # NoName THEN SortedStep(rec)
    ELSE Str("Entity")

getEntityName(ents, id) ==
    IF id \notin DOMAIN ents THEN Str("Non existent entity (BUG)")
    ELSE ResolveName(ents[id])

\* mutant: only a name taken from the name component is cached
updateEntityName_OnlyNamed(ents, names, id) ==
    IF id \in DOMAIN ents /\ NameStep(ents[id]) # NoName
    THEN MapSet(names, id, NameStep(ents[id]))
    ELSE names

\* updateEntityName: the new entityNames
updateEntityName(ents, names, id) ==
    LET name == getEntityName(ents, id)
    IN  IF Truthy(name) THEN MapSet(names, id, name) ELSE names

-----------------------------------------------------------------------------
(* Mutation Reconciler *)

\* isComponentValueUnchanged: the answer and the cache it leaves
isComponentValueUnchanged(cache, entity, componentId, newValue) ==
    IF newValue = Null THEN [unchanged |-> FALSE, cache |-> cache]
    ELSE IF entity \notin DOMAIN cache
    THEN [unchanged |-> FALSE,
          cache |-> MapSet(cache, entity, componentId :> JSONStringify(newValue))]
    ELSE LET entityCache == cache[entity]
             newValueStr == JSONStringify(newValue)
         IN  IF componentId \in DOMAIN entityCache /\ entityCache[componentId] = newValueStr
             THEN [unchanged |-> TRUE, cache |-> cache]
             ELSE [unchanged |-> FALSE,
                   cache |-> MapSet(cache, entity, MapSet(entityCache, componentId, newValueStr))]

hiddenEntityNames == <<OBSERVER, SYSTEM_ID_MARKER>>

\* mutant: only the first changes entry is looked at
containsHiddenComponent_FirstOnly(mutation, nameToIdMap) ==
    /\ Len(mutation.changes) > 0
    /\ \E k \in 1..Len(hiddenEntityNames) :
        MapGetId(nameToIdMap, hiddenEntityNames[k]) = mutation.changes[1][1]

containsHiddenComponent(mutation, nameToIdMap) ==
    \E i \in 1..Len(mutation.changes) : \E k \in 1..Len(hiddenEntityNames) :
        MapGetId(nameToIdMap, hiddenEntityNames[k]) = mutation.changes[i][1]

\* one more mutation of the slot of component c
Bump(w, c) == [w EXCEPT ![c] = @ + 1]

\* mutant: the cleanup of the value cache is forgotten
RemoveEntity_KeepsCache(S, entity) ==
    [S EXCEPT !.entities       = MapDelete(@, entity),
              !.childParentMap = MapDelete(@, entity),
              !.entityNames    = MapDelete(@, entity)]

\* mutant: the parent link is reset to null instead of deleted
RemoveEntity_NullsParent(S, entity) ==
    [S EXCEPT !.entities            = MapDelete(@, entity),
              !.childParentMap      = MapSet(@, entity, Null),
              !.entityNames         = MapDelete(@, entity),
              !.componentValueCache = MapDelete(@, entity)]

\* mutant: the maps are keyed by the index of the id alone
RemoveEntity_ByIndex(S, entity) ==
    LET Drop(m) == [x \in {y \in DOMAIN m : y.index # entity.index} |-> m[x]]
    IN  [S EXCEPT !.entities            = Drop(@),
                  !.childParentMap      = Drop(@),
                  !.entityNames         = Drop(@),
                  !.componentValueCache = Drop(@)]

\* mutant: the name of a removed entity is kept
RemoveEntity_KeepsName(S, entity) ==
    [S EXCEPT !.entities            = MapDelete(@, entity),
              !.childParentMap      = MapDelete(@, entity),
              !.componentValueCache = MapDelete(@, entity)]

\* mutation.kind === 'remove'
RemoveEntity(S, entity) ==
    [S EXCEPT !.entities            = MapDelete(@, entity),
              !.childParentMap      = MapDelete(@, entity),
              !.entityNames         = MapDelete(@, entity),
              !.componentValueCache = MapDelete(@, entity)]

(* The loops of the tracked branch run on L: the entity's component Map,   *)
(* childParentMap, the value cache, shouldUpdateName and the write counts.  *)

\* mutant: every removes entry clears the parent link
RemoveStep_ClearsOnAny(L, entity, removed, parentComponentId) ==
    LET removedCommponentId == removed[1]
        isDisabled == removed[2]
        L1 == [L EXCEPT !.childParentMap = MapSet(@, entity, Null)]
    IN  IF ~RecHas(L1.entityComponents, removedCommponentId) THEN L1
        ELSE IF isDisabled
        THEN [L1 EXCEPT !.entityComponents =
                            RecSet(@, removedCommponentId,
                                   RecGet(@, removedCommponentId).value, TRUE),
                        !.writes = Bump(@, removedCommponentId)]
        ELSE [L1 EXCEPT !.entityComponents = RecDelete(@, removedCommponentId),
                        !.shouldUpdateName = TRUE,
                        !.writes = Bump(@, removedCommponentId)]

\* mutant: a disabling removes entry forgets the value of the slot
RemoveStep_DropsValue(L, entity, removed, parentComponentId) ==
    LET removedCommponentId == removed[1]
        isDisabled == removed[2]
        L1 == IF removedCommponentId = parentComponentId
              THEN [L EXCEPT !.childParentMap = MapSet(@, entity, Null)]
              ELSE L
    IN  IF ~RecHas(L1.entityComponents, removedCommponentId) THEN L1
        ELSE IF isDisabled
        THEN [L1 EXCEPT !.entityComponents = RecSet(@, removedCommponentId, Null, TRUE),
                        !.writes = Bump(@, removedCommponentId)]
        ELSE [L1 EXCEPT !.entityComponents = RecDelete(@, removedCommponentId),
                        !.shouldUpdateName = TRUE,
                        !.writes = Bump(@, removedCommponentId)]

\* mutant: the test for a missing component is left out
RemoveStep_NoPresenceCheck(L, entity, removed, parentComponentId) ==
    LET removedCommponentId == removed[1]
        isDisabled == removed[2]
        L1 == IF removedCommponentId = parentComponentId
              THEN [L EXCEPT !.childParentMap = MapSet(@, entity, Null)]
              ELSE L
        value == IF RecHas(L1.entityComponents, removedCommponentId)
                 THEN RecGet(L1.entityComponents, removedCommponentId).value
                 ELSE Null
    IN  IF isDisabled
        THEN [L1 EXCEPT !.entityComponents = RecSet(@, removedCommponentId, value, TRUE),
                        !.writes = Bump(@, removedCommponentId)]
        ELSE [L1 EXCEPT !.entityComponents = RecDelete(@, removedCommponentId),
                        !.shouldUpdateName = TRUE,
                        !.writes = Bump(@, removedCommponentId)]

\* one iteration of the loop over mutation.removes
RemoveStep(L, entity, removed, parentComponentId) ==
    LET removedCommponentId == removed[1]
        isDisabled == removed[2]
        L1 == IF removedCommponentId = parentComponentId
              THEN [L EXCEPT !.childParentMap = MapSet(@, entity, Null)]
              ELSE L
    IN  IF ~RecHas(L1.entityComponents, removedCommponentId) THEN L1
        ELSE IF isDisabled
        THEN [L1 EXCEPT !.entityComponents =
                            RecSet(@, removedCommponentId,
                                   RecGet(@, removedCommponentId).value, TRUE),
                        !.writes = Bump(@, removedCommponentId)]
        ELSE [L1 EXCEPT !.entityComponents = RecDelete(@, removedCommponentId),
                        !.shouldUpdateName = TRUE,
                        !.writes = Bump(@, removedCommponentId)]

RECURSIVE RemovesLoop(_, _, _, _)
RemovesLoop(L, entity, removes, parentComponentId) ==
    IF removes = << >> THEN L
    ELSE RemovesLoop(RemoveStep(L, entity, Head(removes), parentComponentId),
                     entity, Tail(removes), parentComponentId)

\* mutant: every applied changes entry asks for a new name
ChangeStep_AlwaysRecomputes(L, entity, change, mutation, parentComponentId) ==
    LET componentId == change[1]
        isDisabled == change[2]
        value == change[3]
        r == isComponentValueUnchanged(L.componentValueCache, entity, componentId, value)
    IN  IF r.unchanged THEN L
        ELSE [L EXCEPT
                !.componentValueCache = r.cache,
                !.shouldUpdateName = TRUE,
                !.entityComponents = RecSet(@, componentId, value, isDisabled),
                !.writes = Bump(@, componentId),
                !.childParentMap =
                    IF componentId = parentComponentId
                       /\ ~containsHiddenComponent(mutation, componentNameToIdMap)
                    THEN MapSet(@, entity, value)
                    ELSE @]

\* one iteration of the loop over mutation.changes
ChangeStep(L, entity, change, mutation, parentComponentId) ==
    LET componentId == change[1]
        isDisabled == change[2]
        value == change[3]
        r == isComponentValueUnchanged(L.componentValueCache, entity, componentId, value)
    IN  IF r.unchanged THEN L
        ELSE [L EXCEPT
                !.componentValueCache = r.cache,
                !.shouldUpdateName = ~RecHas(L.entityComponents, componentId),
                !.entityComponents = RecSet(@, componentId, value, isDisabled),
                !.writes = Bump(@, componentId),
                !.childParentMap =
                    IF componentId = parentComponentId
                       /\ ~containsHiddenComponent(mutation, componentNameToIdMap)
                    THEN MapSet(@, entity, value)
                    ELSE @]

RECURSIVE ChangesLoop(_, _, _, _, _)
ChangesLoop(L, entity, changes, mutation, parentComponentId) ==
    IF changes = << >> THEN L
    ELSE ChangesLoop(ChangeStep(L, entity, Head(changes), mutation, parentComponentId),
                     entity, Tail(changes), mutation, parentComponentId)

\* mutation.kind === 'change', the entity has a record
ChangeTracked(S, entity, mutation, parentComponentId) ==
    LET L0 == [entityComponents    |-> S.entities[entity],
               childParentMap      |-> S.childParentMap,
               componentValueCache |-> S.componentValueCache,
               shouldUpdateName    |-> FALSE,
               writes              |-> S.writes]
        L1 == RemovesLoop(L0, entity, mutation.removes, parentComponentId)
        L2 == ChangesLoop(L1, entity, mutation.changes, mutation, parentComponentId)
        ents == MapSet(S.entities, entity, L2.entityComponents)
    IN  [entities            |-> ents,
         childParentMap      |-> L2.childParentMap,
         entityNames         |-> IF L2.shouldUpdateName
                                 THEN updateEntityName(ents, S.entityNames, entity)
                                 ELSE S.entityNames,
         componentValueCache |-> L2.componentValueCache,
         writes              |-> L2.writes]

\* new Map(mutation.changes.map(...)): entries are set in order
RECURSIVE NewRecord(_, _)
NewRecord(rec, changes) ==
    IF changes = << >> THEN rec
    ELSE NewRecord(RecSet(rec, Head(changes)[1], Head(changes)[3], Head(changes)[2]),
                   Tail(changes))

RECURSIVE CountWrites(_, _)
CountWrites(w, changes) ==
    IF changes = << >> THEN w ELSE CountWrites(Bump(w, Head(changes)[1]), Tail(changes))

\* mutant: the disabled flag of the parent entry is not looked at
NewEntityParent_IgnoresDisabled(mutation, parentComponentId) ==
    LET IsParent(change) == change[1] = parentComponentId
        i == FirstIdx({k \in 1..Len(mutation.changes) : IsParent(mutation.changes[k])})
    IN  IF i = 0 THEN Null ELSE mutation.changes[i][3]

\* mutant: the disabled test is the wrong way round
NewEntityParent_Swapped(mutation, parentComponentId) ==
    LET IsParent(change) == change[1] = parentComponentId
        i == FirstIdx({k \in 1..Len(mutation.changes) : IsParent(mutation.changes[k])})
    IN  IF i = 0 THEN Null
        ELSE IF mutation.changes[i][2] THEN mutation.changes[i][3] ELSE Null

\* the parent link of a new entity that is not hidden
NewEntityParent(mutation, parentComponentId) ==
    LET IsParent(change) == change[1] = parentComponentId
        i == FirstIdx({k \in 1..Len(mutation.changes) : IsParent(mutation.changes[k])})
    IN  IF i = 0 THEN Null
        ELSE IF mutation.changes[i][2] THEN Null ELSE mutation.changes[i][3]

\* mutant: the name is resolved before the record is stored
ChangeNew_NameBeforeInsert(S, entity, mutation, parentComponentId) ==
    LET ents == MapSet(S.entities, entity, NewRecord(<< >>, mutation.changes))
    IN  [entities            |-> ents,
         childParentMap      |->
             IF ~containsHiddenComponent(mutation, componentNameToIdMap)
             THEN MapSet(S.childParentMap, entity,
                         NewEntityParent(mutation, parentComponentId))
             ELSE S.childParentMap,
         entityNames         |-> updateEntityName(S.entities, S.entityNames, entity),
         componentValueCache |-> S.componentValueCache,
         writes              |-> CountWrites(S.writes, mutation.changes)]

\* mutant: the removes entries are applied to the record of a new entity
ChangeNew_AppliesRemoves(S, entity, mutation, parentComponentId) ==
    LET built == NewRecord(<< >>, mutation.changes)
        kept == SelectSeq(built, LAMBDA slot :
                    \A j \in 1..Len(mutation.removes) : mutation.removes[j][1] # slot.id)
        ents == MapSet(S.entities, entity, kept)
    IN  [entities            |-> ents,
         childParentMap      |->
             IF ~containsHiddenComponent(mutation, componentNameToIdMap)
             THEN MapSet(S.childParentMap, entity,
                         NewEntityParent(mutation, parentComponentId))
             ELSE S.childParentMap,
         entityNames         |-> updateEntityName(ents, S.entityNames, entity),
         componentValueCache |-> S.componentValueCache,
         writes              |-> CountWrites(S.writes, mutation.changes)]

\* mutant: a change without changes entries creates no record
ChangeNew_SkipsEmpty(S, entity, mutation, parentComponentId) ==
    LET ents == MapSet(S.entities, entity, NewRecord(<< >>, mutation.changes))
    IN  IF mutation.changes = << >> THEN S
        ELSE [entities            |-> ents,
              childParentMap      |->
                  IF ~containsHiddenComponent(mutation, componentNameToIdMap)
                  THEN MapSet(S.childParentMap, entity,
                              NewEntityParent(mutation, parentComponentId))
                  ELSE S.childParentMap,
              entityNames         |-> updateEntityName(ents, S.entityNames, entity),
              componentValueCache |-> S.componentValueCache,
              writes              |-> CountWrites(S.writes, mutation.changes)]

\* mutation.kind === 'change', the entity has no record
ChangeNew(S, entity, mutation, parentComponentId) ==
    LET ents == MapSet(S.entities, entity, NewRecord(<< >>, mutation.changes))
    IN  [entities            |-> ents,
         childParentMap      |->
             IF ~containsHiddenComponent(mutation, componentNameToIdMap)
             THEN MapSet(S.childParentMap, entity,
                         NewEntityParent(mutation, parentComponentId))
             ELSE S.childParentMap,
         entityNames         |-> updateEntityName(ents, S.entityNames, entity),
         componentValueCache |-> S.componentValueCache,
         writes              |-> CountWrites(S.writes, mutation.changes)]

\* mutant: while the parent type is not registered, component 1 is taken
\* for the parent component
updateEntity_AssumesParentId(S, entity, mutation) ==
    LET registered == MapGetId(componentNameToIdMap, PARENT)
        parentComponentId == IF registered = Undefined THEN 1 ELSE registered
    IN  IF mutation.kind = "remove" THEN RemoveEntity(S, entity)
        ELSE IF mutation.kind = "change"
        THEN IF entity \in DOMAIN S.entities
             THEN ChangeTracked(S, entity, mutation, parentComponentId)
             ELSE ChangeNew(S, entity, mutation, parentComponentId)
        ELSE S

updateEntity(S, entity, mutation) ==
    LET parentComponentId == MapGetId(componentNameToIdMap, PARENT)
    IN  IF mutation.kind = "remove" THEN RemoveEntity(S, entity)
        ELSE IF mutation.kind = "change"
        THEN IF entity \in DOMAIN S.entities
             THEN ChangeTracked(S, entity, mutation, parentComponentId)
             ELSE ChangeNew(S, entity, mutation, parentComponentId)
        ELSE S

-----------------------------------------------------------------------------
(* Reference reconciler: every event applied literally, no value cache.     *)
(* Its records are functions ComponentId -> {value, disabled}.              *)

RefSlot(value, disabled) == [value |-> value, disabled |-> disabled]

RECURSIVE RefRemoves(_, _)
RefRemoves(slots, removes) ==
    IF removes = << >> THEN slots
    ELSE LET c == Head(removes)[1]
             next == IF c \notin DOMAIN slots THEN slots
                     ELSE IF Head(removes)[2]
                     THEN MapSet(slots, c, RefSlot(slots[c].value, TRUE))
                     ELSE MapDelete(slots, c)
         IN  RefRemoves(next, Tail(removes))

RECURSIVE RefChanges(_, _)
RefChanges(slots, changes) ==
    IF changes = << >> THEN slots
    ELSE RefChanges(MapSet(slots, Head(changes)[1],
                           RefSlot(Head(changes)[3], Head(changes)[2])),
                    Tail(changes))

RefUpdateEntity(r, entity, mutation) ==
    IF mutation.kind = "remove" THEN MapDelete(r, entity)
    ELSE IF mutation.kind = "change"
    THEN IF entity \in DOMAIN r
         THEN MapSet(r, entity, RefChanges(RefRemoves(r[entity], mutation.removes),
                                           mutation.changes))
         ELSE MapSet(r, entity, RefChanges(EmptyMap, mutation.changes))
    ELSE r

-----------------------------------------------------------------------------
(* The stream: the items the engine may send *)

\* an EntityId packs a 32-bit index and a 32-bit generation; a Map keeps two
\* ids apart exactly when the packed values differ, that is when the pairs do
EntityId(index, generation) == [index |-> index, generation |-> generation]
EntityIds == { EntityId(1, 1), EntityId(1, 2) }

\* the ids the engine gives the component types
EngineIds  == (PARENT :> 1) @@ (NAME :> 2) @@ (OBSERVER :> 3) @@ (PLAYER :> 4) @@
              (WINDOW :> 5)
ParentId   == EngineIds[PARENT]
NameId     == EngineIds[NAME]
ObserverId == EngineIds[OBSERVER]
PlayerId   == EngineIds[PLAYER]
WindowId   == EngineIds[WINDOW]
ComponentIds == {EngineIds[n] : n \in DOMAIN EngineIds}

ComponentDefs ==
    << [id |-> ParentId, name |-> PARENT], [id |-> NameId, name |-> NAME],
       [id |-> ObserverId, name |-> OBSERVER], [id |-> PlayerId, name |-> PLAYER],
       [id |-> WindowId, name |-> WINDOW] >>

\* the full list, the name type alone, and a list that gives the id of the
\* player type to the name type
ComponentLists ==
    { ComponentDefs, << ComponentDefs[NameId] >>, << [id |-> PlayerId, name |-> NAME] >> }

\* the descriptors of two types, and a second descriptor for one of them
TypeLists ==
    { << <<NAME, [short_name |-> Str("Name")]>>,
         <<PLAYER, [short_name |-> Str("Player")]>> >>,
      << <<PLAYER, [short_name |-> Str("Hero")]>> >> }

P == Num("2")       \* the parent component's value: an entity id

Chg(changes, removes) == [kind |-> "change", changes |-> changes, removes |-> removes]

ChangeMutations ==
    { Chg(<< >>, << >>),
      Chg(<< <<ParentId, FALSE, P>> >>, << >>),
      Chg(<< <<ParentId, TRUE, P>> >>, << >>),
      Chg(<< <<NameId, FALSE, Str("hello")>> >>, << >>),
      Chg(<< <<NameId, FALSE, Str("")>> >>, << >>),
      Chg(<< <<ObserverId, FALSE, Null>> >>, << >>),
      Chg(<< <<ParentId, FALSE, P>>, <<ObserverId, FALSE, Null>> >>, << >>),
      Chg(<< <<PlayerId, FALSE, Num("42")>> >>, << >>),
      Chg(<< <<PlayerId, TRUE, Num("42")>> >>, << >>),
      Chg(<< <<PlayerId, FALSE, Null>> >>, << >>),
      Chg(<< <<NameId, FALSE, Str("hello")>>, <<PlayerId, FALSE, Num("42")>> >>, << >>),
      Chg(<< <<WindowId, FALSE, Str("Main")>> >>, << >>),
      Chg(<< <<WindowId, FALSE, Null>> >>, << >>),
      Chg(<< >>, << <<NameId, FALSE>> >>),
      Chg(<< >>, << <<ParentId, FALSE>> >>),
      Chg(<< >>, << <<PlayerId, FALSE>> >>),
      Chg(<< >>, << <<PlayerId, TRUE>> >>),
      Chg(<< <<PlayerId, FALSE, Num("42")>> >>, << <<NameId, FALSE>> >>),
      Chg(<< <<PlayerId, FALSE, Num("42")>> >>, << <<PlayerId, FALSE>> >>) }

Mutations == ChangeMutations \cup { [kind |-> "remove"], [kind |-> "replace"] }

-----------------------------------------------------------------------------
(* State machine *)

NoWrites == [c \in ComponentIds |-> 0]

\* no update emitted: the runtime mode, the updates the engine has emitted
\* as well-formed JSON, the messages posted and not yet handled, the parse
\* errors logged
NoUpdates(mode) == [mode |-> mode, emitted |-> << >>, queue |-> << >>, errors |-> 0]

\* `null` as the value of rafId
NoRaf == 0

\* the fields of a new IronWorker / MainThreadAdapter; wasm is the position
\* of the wasmData handler, scheduled the callbacks the browser holds,
\* nextId the id the next requestAnimationFrame returns
NewWorker ==
    [appHandle |-> 0, wasm |-> "none", initFinished |-> 0, isStoppedRunning |-> FALSE,
     rafId |-> NoRaf, scheduled |-> {}, nextId |-> 1, primary |-> FALSE,
     windows |-> 0, frameIndex |-> 0, resumed |-> FALSE]

\* the fields of the ControllerManagerClass singleton; gpu is navigator.gpu,
\* calls the position of every registerCanvas call, controllers the
\* WorkerController objects constructed so far
NewManager(gpu) ==
    [gpu |-> gpu, pendingCanvases |-> << >>, initializationStarted |-> FALSE,
     loadingInProgress |-> FALSE, controller |-> 0, isInitialized |-> FALSE,
     showWebGPUWarning |-> FALSE, calls |-> << >>, controllers |-> << >>]

\* new SystemState(): empty maps, no call of process_update yet
NewSystemState ==
    /\ components = EmptyMap
    /\ registry = EmptyMap
    /\ componentNameToIdMap = EmptyMap
    /\ entities = EmptyMap
    /\ childParentMap = EmptyMap
    /\ entityNames = EmptyMap
    /\ componentValueCache = EmptyMap
    /\ nEvents = 0
    /\ last = [kind |-> "none"]
    /\ before = [entities |-> EmptyMap, childParentMap |-> EmptyMap,
                 entityNames |-> EmptyMap, componentValueCache |-> EmptyMap]
    /\ writes = NoWrites
    /\ ref = EmptyMap
    /\ pending = << >>
    /\ applied = << >>
    /\ received = << >>

Init ==
    /\ NewSystemState
    /\ bridge = NoUpdates("worker")
    /\ worker = NewWorker
    /\ manager = NewManager(TRUE)

\* mutant: the loop leaves the batch after an item of unknown kind
ForOf_StopsAtUnknown(update) ==
    [item |-> Head(update),
     rest |-> IF Head(update).kind = "unknown" THEN << >> ELSE Tail(update)]

\* mutant: the loop walks the batch from its end
ForOf_Reversed(update) ==
    [item |-> update[Len(update)], rest |-> SubSeq(update, 1, Len(update) - 1)]

\* for (const item of update): the item the loop takes and the items it keeps
\* for the iterations to come
ForOf(update) == [item |-> Head(update), rest |-> Tail(update)]

\* one iteration of the for loop of process_update.  Under BatchSpec it
\* takes the next item of the batch at hand; under Spec, which follows no
\* batch, the item is any item of the stream
TakeItem(item) ==
    /\ nEvents < MaxEvents
    /\ nEvents' = nEvents + 1
    /\ last' = item
    /\ before' = [entities |-> entities, childParentMap |-> childParentMap,
                  entityNames |-> entityNames,
                  componentValueCache |-> componentValueCache]
    /\ IF pending = << >> THEN UNCHANGED <<pending, applied, received>>
       ELSE /\ item = ForOf(pending).item
            /\ pending' = ForOf(pending).rest
            /\ applied' = Append(applied, item)
            /\ UNCHANGED received
    /\ UNCHANGED host

\* item.kind === 'type_registry'
TypeRegistryItem(types) ==
    /\ TakeItem([kind |-> "type_registry", types |-> types])
    /\ registry' = setRegistry(registry, types)
    /\ writes' = NoWrites
    /\ UNCHANGED <<components, componentNameToIdMap, mirror, ref>>

\* mutant: a component event drops the names derived so far
ComponentItem_DropsNames(defs) ==
    /\ TakeItem([kind |-> "component", components |-> defs])
    /\ LET r == setComponents(components, componentNameToIdMap, defs)
       IN  /\ components' = r.components
           /\ componentNameToIdMap' = r.componentNameToIdMap
    /\ writes' = NoWrites
    /\ entityNames' = EmptyMap
    /\ UNCHANGED <<registry, entities, childParentMap, componentValueCache, ref>>

\* item.kind === 'component'
ComponentItem(defs) ==
    /\ TakeItem([kind |-> "component", components |-> defs])
    /\ LET r == setComponents(components, componentNameToIdMap, defs)
       IN  /\ components' = r.components
           /\ componentNameToIdMap' = r.componentNameToIdMap
    /\ writes' = NoWrites
    /\ UNCHANGED <<registry, mirror, ref>>

\* item.kind === 'entity'
EntityItem(entity, mutation) ==
    /\ TakeItem([kind |-> "entity", entity |-> entity, mutation |-> mutation])
    /\ LET S == [entities            |-> entities,
                 childParentMap      |-> childParentMap,
                 entityNames         |-> entityNames,
                 componentValueCache |-> componentValueCache,
                 writes              |-> NoWrites]
       IN  \E R \in {updateEntity(S, entity, mutation)} :
           /\ entities' = R.entities
           /\ childParentMap' = R.childParentMap
           /\ entityNames' = R.entityNames
           /\ componentValueCache' = R.componentValueCache
           /\ writes' = R.writes
    /\ ref' = RefUpdateEntity(ref, entity, mutation)
    /\ UNCHANGED catalog

\* item.kind === 'schedules': updateSchedules returns at once
SchedulesItem ==
    /\ TakeItem([kind |-> "schedules"])
    /\ writes' = NoWrites
    /\ UNCHANGED <<catalog, mirror, ref>>

\* any other kind is logged
UnknownItem ==
    /\ TakeItem([kind |-> "unknown"])
    /\ writes' = NoWrites
    /\ UNCHANGED <<catalog, mirror, ref>>

Next ==
    \/ \E types \in TypeLists : TypeRegistryItem(types)
    \/ \E defs \in ComponentLists : ComponentItem(defs)
    \/ \E entity \in EntityIds, mutation \in Mutations : EntityItem(entity, mutation)
    \/ SchedulesItem
    \/ UnknownItem

Spec == Init /\ [][Next]_vars

-----------------------------------------------------------------------------
(* The calls of process_update *)

\* the items of a sequence of batches, in order
RECURSIVE Flatten(_)
Flatten(batches) ==
    IF batches = << >> THEN << >> ELSE Head(batches) \o Flatten(Tail(batches))

\* the items of the batches: one of each kind, an entity created with a
\* parent, a mutation of unknown kind and a remove
BatchItems ==
    { [kind |-> "type_registry",
       types |-> << <<NAME, [short_name |-> Str("Name")]>>,
                    <<PLAYER, [short_name |-> Str("Player")]>> >>],
      [kind |-> "component", components |-> ComponentDefs],
      [kind |-> "entity", entity |-> EntityId(1, 1),
       mutation |-> Chg(<< <<ParentId, FALSE, P>> >>, << >>)],
      [kind |-> "entity", entity |-> EntityId(1, 1), mutation |-> [kind |-> "replace"]],
      [kind |-> "entity", entity |-> EntityId(1, 1), mutation |-> [kind |-> "remove"]],
      [kind |-> "schedules"],
      [kind |-> "unknown"] }

Batches == UNION { [1..n -> BatchItems] : n \in 0..MaxBatch }

\* process_update(update) is called: the loop starts on the batch
ProcessUpdate(update) ==
    /\ UNCHANGED host
    /\ pending = << >>
    /\ Len(received) < MaxBatch
    /\ nEvents + Len(update) <= MaxEvents
    /\ pending' = update
    /\ received' = Append(received, update)
    /\ UNCHANGED <<catalog, mirror, nEvents, last, before, writes, ref, applied>>

\* a call of process_update, or an iteration of the loop of the call at hand
BatchNext ==
    \/ \E update \in Batches : ProcessUpdate(update)
    \/ pending # << >> /\ \E types \in TypeLists : TypeRegistryItem(types)
    \/ pending # << >> /\ \E defs \in ComponentLists : ComponentItem(defs)
    \/ pending # << >> /\ \E entity \in EntityIds, mutation \in Mutations :
                              EntityItem(entity, mutation)
    \/ pending # << >> /\ SchedulesItem
    \/ pending # << >> /\ UnknownItem

BatchSpec == Init /\ [][BatchNext]_vars

-----------------------------------------------------------------------------
(* From the engine to process_update.  In worker mode the engine runs in    *)
(* the worker, which posts each update to the main thread; in main mode the *)
(* adapter calls the handler at once.                                       *)

\* the updates the engine emits
ChannelUpdates ==
    { << >>,
      << [kind |-> "unknown"] >>,
      << [kind |-> "entity", entity |-> EntityId(1, 1), mutation |-> [kind |-> "remove"]] >>,
      << [kind |-> "component", components |-> ComponentDefs],
         [kind |-> "entity", entity |-> EntityId(1, 1),
          mutation |-> Chg(<< <<ParentId, FALSE, P>> >>, << >>)] >> }

\* the texts the engine hands over: the JSON of an update, or a text that
\* is not JSON
UpdateJsons ==
    { [json |-> "update", update |-> update] : update \in ChannelUpdates }
        \cup { [json |-> "malformed", update |-> << >>] }

\* JSON.parse(updateJson): the update, or an exception
JSONParse(updateJson) ==
    IF updateJson.json = "update" THEN [ok |-> TRUE, update |-> updateJson.update]
    ELSE [ok |-> FALSE, update |-> << >>]

\* mutant: a message posted replaces the messages not yet handled
PostMessage_Overwrites(queue, msg) == << msg >>

\* self.postMessage(msg): the message joins the tasks of the main thread
PostMessage(queue, msg) == Append(queue, msg)

\* sendInspectorUpdateFromWorker(updateJson).  In main mode the engine runs
\* on the thread of process_update, so it emits only between two calls.
SendInspectorUpdateFromWorker(updateJson) ==
    LET r == JSONParse(updateJson)
    IN  /\ Len(bridge.emitted) < MaxBatch
        /\ bridge.errors < MaxBatch
        /\ Len(Flatten(bridge.emitted)) + Len(r.update) <= MaxEvents
        /\ bridge.mode = "main" => pending = << >>
        /\ IF ~r.ok
           THEN /\ bridge' = [bridge EXCEPT !.errors = @ + 1]
                /\ UNCHANGED <<pending, received>>
           ELSE IF bridge.mode = "worker"
           THEN /\ bridge' = [bridge EXCEPT !.emitted = Append(@, r.update),
                                            !.queue = PostMessage(@, r.update)]
                /\ UNCHANGED <<pending, received>>
           ELSE /\ bridge' = [bridge EXCEPT !.emitted = Append(@, r.update)]
                /\ pending' = r.update
                /\ received' = Append(received, r.update)
        /\ UNCHANGED <<catalog, mirror, nEvents, last, before, writes, ref, applied,
                       worker, manager>>

\* the main thread takes the next message when the task before it has
\* ended: handleBridgeMessage, inspector.handleUpdate, process_update
HandleBridgeMessage ==
    /\ bridge.queue # << >>
    /\ pending = << >>
    /\ bridge' = [bridge EXCEPT !.queue = Tail(@)]
    /\ pending' = Head(bridge.queue)
    /\ received' = Append(received, Head(bridge.queue))
    /\ UNCHANGED <<catalog, mirror, nEvents, last, before, writes, ref, applied,
                   worker, manager>>

\* an iteration of the loop of process_update
LoopStep == pending # << >> /\ Next

ChannelInit ==
    /\ NewSystemState
    /\ \E mode \in {"worker", "main"} : bridge = NoUpdates(mode)
    /\ worker = NewWorker
    /\ manager = NewManager(TRUE)

ChannelNext ==
    \/ \E updateJson \in UpdateJsons : SendInspectorUpdateFromWorker(updateJson)
    \/ HandleBridgeMessage
    \/ pending # << >> /\ \E defs \in ComponentLists : ComponentItem(defs)
    \/ pending # << >> /\ \E entity \in EntityIds, mutation \in Mutations :
                              EntityItem(entity, mutation)
    \/ pending # << >> /\ UnknownItem

\* a message posted is handled and a loop entered goes on
ChannelSpec ==
    /\ ChannelInit
    /\ [][ChannelNext]_vars
    /\ WF_vars(HandleBridgeMessage)
    /\ WF_vars(LoopStep)

-----------------------------------------------------------------------------
(* The frame loop of the worker (IronWorker); MainThreadAdapter repeats it  *)
(* statement by statement.  A step is one message handler or one animation  *)
(* frame callback.                                                          *)

\* the animation frame ids handed out
MaxFrames == 4

\* what the frame loop leaves alone
inspected ==
    <<catalog, mirror, nEvents, last, before, writes, ref, applied, pending, received,
      bridge, manager>>

\* requestAnimationFrame((dt) => this.enterFrame(dt)): a new id, remembered
\* in rafId
RequestAnimationFrame(w) ==
    [w EXCEPT !.rafId = w.nextId, !.scheduled = @ \cup {w.nextId}, !.nextId = @ + 1]

\* cancelAnimationFrame(this.rafId); this.rafId = null
CancelAnimationFrame(w) ==
    [w EXCEPT !.scheduled = @ \ {w.rafId}, !.rafId = NoRaf]

\* case "wasmData": the handler starts and waits for the module
OnWasmData ==
    /\ worker.wasm = "none"
    /\ worker' = [worker EXCEPT !.wasm = "loading"]
    /\ UNCHANGED inspected

\* the module is there: appHandle = init_bevy_app(), workerIsReady posted
WasmInitDone ==
    /\ worker.wasm = "loading"
    /\ worker' = [worker EXCEPT !.wasm = "ready", !.appHandle = 1]
    /\ UNCHANGED inspected

\* mutant: the window of the primary canvas always requests a frame
CreateWorkerAppWindow_AlwaysSchedules(w, finished) ==
    LET created == [w EXCEPT !.primary = TRUE, !.windows = @ + 1,
                             !.initFinished = finished]
    IN  IF ~created.isStoppedRunning THEN RequestAnimationFrame(created) ELSE created

\* createWorkerAppWindow: the window, the preparation state, and a frame
\* request if none is pending and the loop is not stopped
CreateWorkerAppWindow(w, finished) ==
    LET created == [w EXCEPT !.primary = TRUE, !.windows = @ + 1,
                             !.initFinished = finished]
    IN  IF created.rafId = NoRaf /\ ~created.isStoppedRunning
        THEN RequestAnimationFrame(created)
        ELSE created

\* case "init": posted once, for the primary canvas, after workerIsReady
OnInit ==
    /\ worker.wasm = "ready"
    /\ ~worker.primary
    /\ worker.nextId <= MaxFrames
    /\ \E finished \in {0, 1} : worker' = CreateWorkerAppWindow(worker, finished)
    /\ UNCHANGED inspected

\* case "createAdditionalWindow": a window and no frame request
OnCreateAdditionalWindow ==
    /\ worker.wasm = "ready"
    /\ worker.windows < MaxBatch
    /\ worker' = [worker EXCEPT !.windows = @ + 1]
    /\ UNCHANGED inspected

\* case "startRunning"
StartRunning(w) ==
    IF w.isStoppedRunning
    THEN LET started == [w EXCEPT !.isStoppedRunning = FALSE, !.resumed = TRUE]
         IN  IF started.rafId = NoRaf THEN RequestAnimationFrame(started) ELSE started
    ELSE w

OnStartRunning ==
    /\ worker.nextId <= MaxFrames
    /\ worker' = StartRunning(worker)
    /\ UNCHANGED inspected

\* mutant: stopRunning leaves the pending frame request alone
StopRunning_KeepsCallback(w) == [w EXCEPT !.isStoppedRunning = TRUE]

\* case "stopRunning"
StopRunning(w) ==
    LET stopped == [w EXCEPT !.isStoppedRunning = TRUE]
    IN  IF stopped.rafId # NoRaf THEN CancelAnimationFrame(stopped) ELSE stopped

OnStopRunning ==
    /\ worker' = StopRunning(worker)
    /\ UNCHANGED inspected

\* enterFrame, called back for the request id
EnterFrame(id) ==
    LET called == [worker EXCEPT !.scheduled = @ \ {id}, !.rafId = NoRaf]
    IN  /\ id \in worker.scheduled
        /\ worker.nextId <= MaxFrames
        /\ IF called.appHandle = 0 \/ called.isStoppedRunning
           THEN worker' = called
           ELSE \E finished \in {0, 1} :
                    LET framed ==
                            IF called.initFinished > 0
                            THEN [called EXCEPT !.frameIndex = @ + 1]
                            ELSE [called EXCEPT !.initFinished = finished]
                    IN  /\ called.initFinished > 0 => finished = 1
                        /\ worker' = IF ~framed.isStoppedRunning
                                     THEN RequestAnimationFrame(framed)
                                     ELSE framed
        /\ UNCHANGED inspected

FrameNext ==
    \/ OnWasmData
    \/ WasmInitDone
    \/ OnInit
    \/ OnCreateAdditionalWindow
    \/ OnStartRunning
    \/ OnStopRunning
    \/ \E id \in 1..MaxFrames : EnterFrame(id)

FrameSpec == Init /\ [][FrameNext]_vars

-----------------------------------------------------------------------------
(* ControllerManagerClass: the canvases register one by one, the first      *)
(* registration starts the controller after a delay of 10 ms.  A step is    *)
(* one run of code between two awaits.  Call i registers canvas i; canvas 1 *)
(* is the primary canvas.                                                   *)

\* the calls of registerCanvas
MaxCalls == 4

\* what the manager leaves alone
managed ==
    <<catalog, mirror, nEvents, last, before, writes, ref, applied, pending, received,
      bridge, worker>>

\* the calls of registerCanvas that wait for the timer or for
\* controller.initialize()
InFlight == {t \in DOMAIN manager.calls : manager.calls[t].pc \in {"timer", "initializing"}}

\* the controllers constructed and not given up
Live == {k \in DOMAIN manager.controllers : manager.controllers[k].state # "failed"}

\* mutant: every registration starts an initialization
RegisterCanvas_AlwaysStarts ==
    LET canvas == Len(manager.calls) + 1
    IN  /\ Len(manager.calls) < MaxCalls
        /\ manager' = [manager EXCEPT
                           !.pendingCanvases = Append(@, canvas),
                           !.initializationStarted = TRUE,
                           !.calls = Append(@, [canvas |-> canvas, pc |-> "timer", controller |-> 0])]
        /\ UNCHANGED managed

\* registerCanvas up to the first await
RegisterCanvas ==
    LET canvas == Len(manager.calls) + 1
    IN  /\ Len(manager.calls) < MaxCalls
        /\ IF ~manager.initializationStarted
           THEN manager' = [manager EXCEPT
                               !.pendingCanvases = Append(@, canvas),
                               !.initializationStarted = TRUE,
                               !.calls = Append(@, [canvas |-> canvas, pc |-> "timer", controller |-> 0])]
           ELSE manager' = [manager EXCEPT
                               !.pendingCanvases = Append(@, canvas),
                               !.calls = Append(@, [canvas |-> canvas, pc |-> "done", controller |-> 0])]
        /\ UNCHANGED managed

\* new WorkerController(canvasConfigs, mode): the controller keeps the
\* canvases registered so far
NewWorkerController(canvasConfigs) ==
    [canvases |-> canvasConfigs, posted |-> << >>, state |-> "initializing"]

\* the timer of call t fires: initializeController up to its await
InitializeController(t) ==
    /\ t \in DOMAIN manager.calls
    /\ manager.calls[t].pc = "timer"
    /\ IF manager.loadingInProgress \/ manager.controller # 0
       THEN manager' = [manager EXCEPT !.calls[t].pc = "done"]
       ELSE IF ~manager.gpu
       THEN manager' = [manager EXCEPT !.showWebGPUWarning = TRUE, !.calls[t].pc = "done"]
       ELSE manager' = [manager EXCEPT
                           !.loadingInProgress = TRUE,
                           !.controllers = Append(@, NewWorkerController(manager.pendingCanvases)),
                           !.controller = Len(manager.controllers) + 1,
                           !.calls[t].pc = "initializing",
                           !.calls[t].controller = Len(manager.controllers) + 1]
    /\ UNCHANGED managed

\* initializeAllCanvases: init for the primary canvas, createAdditionalWindow
\* for every other canvas of the controller
InitializeAllCanvases(controller) ==
    [controller EXCEPT
        !.posted = [i \in DOMAIN controller.canvases |->
                       [ty |-> IF controller.canvases[i] = 1 THEN "init"
                               ELSE "createAdditionalWindow",
                        canvasId |-> controller.canvases[i]]],
        !.state = "ready"]

\* controller.initialize() of call t resolves
InitializeResolves(t) ==
    /\ t \in DOMAIN manager.calls
    /\ manager.calls[t].pc = "initializing"
    /\ LET k == manager.calls[t].controller
       IN  manager' = [manager EXCEPT
                          !.controllers[k] = InitializeAllCanvases(@),
                          !.isInitialized = TRUE,
                          !.loadingInProgress = FALSE,
                          !.calls[t].pc = "done"]
    /\ UNCHANGED managed

\* controller.initialize() of call t rejects: no adapter
InitializeRejects(t) ==
    /\ t \in DOMAIN manager.calls
    /\ manager.calls[t].pc = "initializing"
    /\ LET k == manager.calls[t].controller
       IN  manager' = [manager EXCEPT
                          !.controllers[k].state = "failed",
                          !.showWebGPUWarning = TRUE,
                          !.controller = 0,
                          !.initializationStarted = FALSE,
                          !.loadingInProgress = FALSE,
                          !.calls[t].pc = "done"]
    /\ UNCHANGED managed

ManagerInit ==
    /\ NewSystemState
    /\ bridge = NoUpdates("worker")
    /\ worker = NewWorker
    /\ \E gpu \in BOOLEAN : manager = NewManager(gpu)

ManagerNext ==
    \/ RegisterCanvas
    \/ \E t \in 1..MaxCalls : InitializeController(t)
    \/ \E t \in 1..MaxCalls : InitializeResolves(t)
    \/ \E t \in 1..MaxCalls : InitializeRejects(t)

ManagerSpec == ManagerInit /\ [][ManagerNext]_vars

\* a timer set fires, and controller.initialize() settles
Continuation ==
    \E t \in 1..MaxCalls :
        InitializeController(t) \/ InitializeResolves(t) \/ InitializeRejects(t)

ManagerFairSpec == ManagerSpec /\ WF_vars(Continuation)

-----------------------------------------------------------------------------
(* prettyEntityId.  An id packs the index into the low half of its bits and *)
(* the generation into the high half; the code has halves of 32 bits, the   *)
(* model halves of HalfBits bits, and takes the id as the exact integer.    *)

\* the bits of a half of an id
HalfBits == 4

\* the ids a half holds: 2^HalfBits
Half == 2 ^ HalfBits

\* index | generation << HalfBits, for every index and generation
PackedIds == 0 .. (Half * Half - 1)

\* a & b on BigInt values that are not negative
RECURSIVE BitAnd(_, _)
BitAnd(a, b) ==
    IF a = 0 \/ b = 0 THEN 0
    ELSE (a % 2) * (b % 2) + 2 * BitAnd(a \div 2, b \div 2)

\* a >> n on a BigInt value that is not negative
RECURSIVE ShiftRight(_, _)
ShiftRight(a, n) == IF n = 0 THEN a ELSE ShiftRight(a \div 2, n - 1)

\* the characters of a number in a template string
RECURSIVE Decimal(_)
Decimal(n) ==
    LET digit(d) == <<"0", "1", "2", "3", "4", "5", "6", "7", "8", "9">>[d + 1]
    IN  IF n < 10 THEN << digit(n) >> ELSE Append(Decimal(n \div 10), digit(n % 10))

\* mutant: the mask misses the highest bit of the index
prettyEntityId_ShortMask(id) ==
    LET bid == id
        index == BitAnd(bid, (Half \div 2) - 1)
        generation == ShiftRight(bid, HalfBits)
    IN  Decimal(index) \o << "v" >> \o Decimal(generation)

\* prettyEntityId(id): `${index}v${generation}`
prettyEntityId(id) ==
    LET bid == id
        index == BitAnd(bid, Half - 1)
        generation == ShiftRight(bid, HalfBits)
    IN  Decimal(index) \o << "v" >> \o Decimal(generation)

\* a call of prettyEntityId
PrettyEntityId(id) ==
    /\ last' = [kind |-> "prettyEntityId", id |-> id, shown |-> prettyEntityId(id)]
    /\ UNCHANGED <<catalog, mirror, nEvents, before, writes, ref, applied, pending,
                   received, host>>

PrettyNext == \E id \in PackedIds : PrettyEntityId(id)

PrettySpec == Init /\ [][PrettyNext]_vars

-----------------------------------------------------------------------------
(* The resolver on its own: updateEntityName(id) calls getEntityName(id)    *)
(* and writes the result.  The entity was created while the Catalog was     *)
(* empty, with any record of up to MaxComps components, and the Catalog was *)
(* registered afterwards.                                                   *)

\* components in the record of the entity whose name is resolved
MaxComps == 3

\* the ids the engine gave its types in this run
ResolverTypes == <<PARENT, NAME, CHILDREN, PLAYER, WINDOW, CAMERA, OBSERVER, SYSTEM_ID_MARKER>>
ResolverIds ==
    (PARENT :> 1) @@ (NAME :> 2) @@ (CHILDREN :> 3) @@ (PLAYER :> 4) @@
    (WINDOW :> 5) @@ (CAMERA :> 6) @@ (OBSERVER :> 9) @@ (SYSTEM_ID_MARKER :> 10)

ResolverDefs ==
    [i \in 1..Len(ResolverTypes) |->
        [id |-> ResolverIds[ResolverTypes[i]], name |-> ResolverTypes[i]]]

\* the values a component of the record may hold
ResolverValues(type) ==
    IF type = NAME THEN {Str("hello"), Str("")}
    ELSE IF type = WINDOW THEN {Str("Main"), Null}
    ELSE {Null}

ResolverSlots ==
    UNION { { [id |-> ResolverIds[type], value |-> value, disabled |-> FALSE] :
                value \in ResolverValues(type) } : type \in DOMAIN ResolverIds }

\* records: slots in any insertion order, no id twice
ResolverRecords ==
    UNION { { rec \in [1..n -> ResolverSlots] :
                \A i, j \in 1..n : i # j => rec[i].id # rec[j].id } :
            n \in 0..MaxComps }

ResolverInit ==
    /\ \E defs \in {ResolverDefs, << >>} :
         /\ components = setComponents(EmptyMap, EmptyMap, defs).components
         /\ componentNameToIdMap = setComponents(EmptyMap, EmptyMap, defs).componentNameToIdMap
    /\ \E types \in TypeLists \cup { << >> } : registry = setRegistry(EmptyMap, types)
    /\ \E rec \in ResolverRecords : entities = (EntityId(1, 1) :> rec)
    /\ childParentMap = (EntityId(1, 1) :> Null)
    /\ entityNames = (EntityId(1, 1) :> Str("Entity"))
    /\ componentValueCache = EmptyMap
    /\ nEvents = 0
    /\ last = [kind |-> "none"]
    /\ before = [entities |-> entities, childParentMap |-> childParentMap,
                 entityNames |-> entityNames, componentValueCache |-> EmptyMap]
    /\ writes = NoWrites
    /\ ref = EmptyMap
    /\ pending = << >>
    /\ applied = << >>
    /\ received = << >>
    /\ bridge = NoUpdates("worker")
    /\ worker = NewWorker
    /\ manager = NewManager(TRUE)

\* mutant: the resolver stores the name it found
GetEntityName_WritesName(id) ==
    /\ last.kind # "getEntityName"
    /\ last' = [kind |-> "getEntityName", entity |-> id, name |-> getEntityName(entities, id)]
    /\ before' = [entities |-> entities, childParentMap |-> childParentMap,
                  entityNames |-> entityNames,
                  componentValueCache |-> componentValueCache]
    /\ entityNames' = MapSet(entityNames, id, getEntityName(entities, id))
    /\ UNCHANGED <<catalog, entities, childParentMap, componentValueCache,
                   nEvents, writes, ref, pending, applied, received, host>>

\* const name = this.getEntityName(id): the name is in the caller's hands
GetEntityName(id) ==
    /\ last.kind # "getEntityName"
    /\ last' = [kind |-> "getEntityName", entity |-> id, name |-> getEntityName(entities, id)]
    /\ before' = [entities |-> entities, childParentMap |-> childParentMap,
                  entityNames |-> entityNames,
                  componentValueCache |-> componentValueCache]
    /\ UNCHANGED <<catalog, mirror, nEvents, writes, ref, pending, applied, received, host>>

\* if (name) this.entityNames.set(id, name)
SetEntityName ==
    /\ last.kind = "getEntityName"
    /\ last' = [kind |-> "updateEntityName", entity |-> last.entity]
    /\ before' = [entities |-> entities, childParentMap |-> childParentMap,
                  entityNames |-> entityNames,
                  componentValueCache |-> componentValueCache]
    /\ entityNames' = IF Truthy(last.name)
                      THEN MapSet(entityNames, last.entity, last.name)
                      ELSE entityNames
    /\ UNCHANGED <<catalog, entities, childParentMap, componentValueCache,
                   nEvents, writes, ref, pending, applied, received, host>>

ResolverNext ==
    \/ \E id \in EntityIds : GetEntityName(id)
    \/ SetEntityName

ResolverSpec == ResolverInit /\ [][ResolverNext]_vars

-----------------------------------------------------------------------------
(* Properties.  The latest step is described by last (the item), before     *)
(* (the Mirror it found) and writes (the slot mutations it made).           *)

IsEntityItem == last.kind = "entity"
IsRemove     == IsEntityItem /\ last.mutation.kind = "remove"
IsChange     == IsEntityItem /\ last.mutation.kind = "change"
WasTracked   == last.entity \in DOMAIN before.entities
ParentComp   == MapGetId(componentNameToIdMap, PARENT)
NameComp     == MapGetId(componentNameToIdMap, NAME)
Carries(mutation, c) == \E i \in 1..Len(mutation.changes) : mutation.changes[i][1] = c
Removes(mutation, c) == \E i \in 1..Len(mutation.removes) : mutation.removes[i][1] = c
\* some changes entry names a component registered under a hidden-marker type
HasHiddenMarker(mutation) ==
    \E name \in {OBSERVER, SYSTEM_ID_MARKER} :
        /\ name \in DOMAIN componentNameToIdMap
        /\ Carries(mutation, componentNameToIdMap[name])

\* C1: after any sequence of entity events the Mirror's entities map equals
\* the map of the reference reconciler, which applies every event literally
\* and has no value cache: same entities, same components, same value and
\* disabled flag in every slot.
C1_MirrorEqualsReference ==
    /\ DOMAIN entities = DOMAIN ref
    /\ \A e \in DOMAIN entities : RecSlots(entities[e]) = ref[e]

\* C2: immediately after a remove mutation for e, none of entities,
\* childParentMap, entityNames and componentValueCache has the key e.
C2_RemovePurgesAllMaps ==
    IsRemove =>
        /\ last.entity \notin DOMAIN entities
        /\ last.entity \notin DOMAIN childParentMap
        /\ last.entity \notin DOMAIN entityNames
        /\ last.entity \notin DOMAIN componentValueCache

\* a remove of an entity that had an entry in each of the four maps
C2_Witness ==
    /\ IsRemove
    /\ last.entity \in DOMAIN before.entities
    /\ last.entity \in DOMAIN before.childParentMap
    /\ last.entity \in DOMAIN before.entityNames
    /\ last.entity \in DOMAIN before.componentValueCache
    /\ last.entity \notin DOMAIN entities

\* C3: two consecutive change events for the same entity (unseen or tracked
\* before the first), each carrying only the entry (c, disabled, value) with
\* a non-null value, make exactly one write to the slot entities[e][c].
C3_SecondApplicationSuppressed ==
    [][ ( /\ last.kind = "entity"
          /\ last.mutation.kind = "change"
          /\ last' = last
          /\ Len(last.mutation.changes) = 1
          /\ last.mutation.removes = << >>
          /\ last.mutation.changes[1][3] # Null )
        => writes[last.mutation.changes[1][1]] + writes'[last.mutation.changes[1][1]] = 1
      ]_vars

\* C4: a change event for an unseen entity e whose changes are exactly
\* [(parentComp, false, P)], parentComp being the id registered for the
\* parent type, leaves childParentMap[e] = P.
C4_NewEntityParentLink ==
    ( /\ IsChange
      /\ ~WasTracked
      /\ ParentComp # Undefined
      /\ Len(last.mutation.changes) = 1
      /\ last.mutation.changes[1][1] = ParentComp
      /\ ~last.mutation.changes[1][2] )
    => /\ last.entity \in DOMAIN childParentMap
       /\ childParentMap[last.entity] = last.mutation.changes[1][3]

C4_Witness ==
    /\ IsChange
    /\ ~WasTracked
    /\ ParentComp # Undefined
    /\ last.mutation.changes = << <<ParentComp, FALSE, P>> >>
    /\ childParentMap[last.entity] = P

\* C5: when the changes of a change mutation contain a hidden-marker
\* component, no parent value of that mutation is written to
\* childParentMap[e]: an unseen entity gets no entry, a tracked entity keeps
\* the entry it had (or the null a parent remove of the same event set).
C5_HiddenSkipsParentLink ==
    (IsChange /\ HasHiddenMarker(last.mutation)) =>
        LET e == last.entity
        IN  IF ~WasTracked THEN e \notin DOMAIN childParentMap
            ELSE IF Removes(last.mutation, ParentComp)
            THEN e \in DOMAIN childParentMap /\ childParentMap[e] = Null
            ELSE /\ (e \in DOMAIN childParentMap) <=> (e \in DOMAIN before.childParentMap)
                 /\ e \in DOMAIN childParentMap =>
                        childParentMap[e] = before.childParentMap[e]

\* a tracked entity with no parent takes a parent change next to a hidden
\* marker: the slot is written, the link is not
C5_Witness ==
    /\ IsChange
    /\ WasTracked
    /\ ParentComp # Undefined
    /\ HasHiddenMarker(last.mutation)
    /\ Carries(last.mutation, ParentComp)
    /\ writes[ParentComp] = 1
    /\ RecGet(entities[last.entity], ParentComp).value = P
    /\ last.entity \in DOMAIN childParentMap
    /\ childParentMap[last.entity] = Null

C7_NameRecomputedOnAddOrDelete ==
    ( /\ IsChange
      /\ WasTracked
      /\ RecKeySet(entities[last.entity]) # RecKeySet(before.entities[last.entity]) )
    => /\ last.entity \in DOMAIN entityNames
       /\ entityNames[last.entity] = getEntityName(entities, last.entity)

\* C8 (as claimed): for every tracked entity e, entityNames[e] equals the
\* resolver's result for the current record and Catalog.
C8_NamesAlwaysCurrent ==
    \A e \in DOMAIN entities :
        e \in DOMAIN entityNames /\ entityNames[e] = getEntityName(entities, e)

\* C8 (amended): immediately after the change event that creates e (Unknown
\* to Tracked), entityNames[e] equals the resolver's result for the current
\* record and Catalog.
C8_NameCurrentAtCreation ==
    (IsChange /\ ~WasTracked)
    => /\ last.entity \in DOMAIN entityNames
       /\ entityNames[last.entity] = getEntityName(entities, last.entity)

\* an entity created while the Catalog resolves a component of it
C8_Witness ==
    /\ IsChange
    /\ ~WasTracked
    /\ components # EmptyMap
    /\ entities[last.entity] # << >>
    /\ entityNames[last.entity] # Str("Entity")
    /\ entityNames[last.entity] = getEntityName(entities, last.entity)

\* C9: a remove mutation for an entity without a record changes nothing:
\* the four maps of the Mirror and the Catalog stay as they are.
C9_RemoveUnknownIsNoOp ==
    [][ ( /\ last'.kind = "entity"
          /\ last'.mutation.kind = "remove"
          /\ last'.entity \notin DOMAIN entities )
        => UNCHANGED <<entities, childParentMap, entityNames, componentValueCache,
                       components, registry, componentNameToIdMap>>
      ]_vars

\* a remove of an entity never seen, while another entity is tracked
C9_Witness ==
    /\ IsRemove
    /\ ~WasTracked
    /\ before.entities # EmptyMap
    /\ entities = before.entities
    /\ last.entity \notin DOMAIN childParentMap

\* C10: every key of entities is a key of entityNames.
C10_TrackedEntitiesAreNamed ==
    DOMAIN entities \subseteq DOMAIN entityNames

\* an entity without components, named by the last fallback
C10_Witness ==
    \E e \in DOMAIN entities :
        /\ entities[e] = << >>
        /\ e \in DOMAIN entityNames
        /\ entityNames[e] = Str("Entity")

\* the entry of a map for a key, as a set: empty when the key is absent
Entry(m, k) == IF k \in DOMAIN m THEN {m[k]} ELSE {}

\* C11 (as claimed): childParentMap[e] is created, set or cleared only by a
\* change event for e that carries the parent component in its changes or
\* removes, and deleted only by a remove of e, together with entities[e];
\* every other event leaves it as it was, absent included.
C11_ParentLinkOnlyWithParentComp ==
    \A e \in EntityIds :
        Entry(childParentMap, e) # Entry(before.childParentMap, e) =>
            /\ IsEntityItem
            /\ last.entity = e
            /\ IF e \in DOMAIN childParentMap
               THEN /\ IsChange
                    /\ \/ Carries(last.mutation, ParentComp)
                       \/ Removes(last.mutation, ParentComp)
               ELSE IsRemove /\ e \notin DOMAIN entities

\* C11 (amended): childParentMap[e] is created, set or cleared only by a
\* change event for e that carries the parent component in its changes or
\* removes, or by the change event that creates e, which sets it to null
\* when no parent component is carried; it is deleted only by a remove of e,
\* together with entities[e]; every other event leaves it as it was.
C11_ParentLinkFrame ==
    \A e \in EntityIds :
        Entry(childParentMap, e) # Entry(before.childParentMap, e) =>
            /\ IsEntityItem
            /\ last.entity = e
            /\ IF e \in DOMAIN childParentMap
               THEN /\ IsChange
                    /\ \/ Carries(last.mutation, ParentComp)
                       \/ Removes(last.mutation, ParentComp)
                       \/ ~WasTracked /\ childParentMap[e] = Null
               ELSE IsRemove /\ e \notin DOMAIN entities

\* a tracked entity without parent takes a parent change: the link is set
C11_Witness ==
    /\ IsChange
    /\ WasTracked
    /\ ParentComp # Undefined
    /\ Carries(last.mutation, ParentComp)
    /\ before.childParentMap[last.entity] = Null
    /\ childParentMap[last.entity] = P

\* C12: every key of componentValueCache is a key of entities; a remove
\* deletes both in the same step.
C12_CacheKeysAreTracked ==
    /\ DOMAIN componentValueCache \subseteq DOMAIN entities
    /\ IsRemove => /\ last.entity \notin DOMAIN componentValueCache
                   /\ last.entity \notin DOMAIN entities

\* the remove of an entity that had a record and cached values
C12_Witness ==
    /\ IsRemove
    /\ last.entity \in DOMAIN before.componentValueCache
    /\ last.entity \in DOMAIN before.entities
    /\ last.entity \notin DOMAIN componentValueCache
    /\ last.entity \notin DOMAIN entities

\* C13 (as claimed): no event removes an entry of components, registry or
\* componentNameToIdMap, or changes what is stored for it.
C13_CatalogNeverChanges ==
    [][ /\ \A id \in DOMAIN components :
            id \in DOMAIN components' /\ components'[id] = components[id]
        /\ \A n \in DOMAIN registry :
            n \in DOMAIN registry' /\ registry'[n] = registry[n]
        /\ \A n \in DOMAIN componentNameToIdMap :
            /\ n \in DOMAIN componentNameToIdMap'
            /\ componentNameToIdMap'[n] = componentNameToIdMap[n]
      ]_vars

\* C13 (amended): no event removes an entry of components, registry or
\* componentNameToIdMap; the entry of an id or name changes only when a
\* component or type_registry event lists that id or name again, and it then
\* holds what the event lists last for it.
C13_CatalogGrowsLastWriteWins ==
    [][ /\ DOMAIN components \subseteq DOMAIN components'
        /\ DOMAIN registry \subseteq DOMAIN registry'
        /\ DOMAIN componentNameToIdMap \subseteq DOMAIN componentNameToIdMap'
        /\ \A id \in DOMAIN components :
            components'[id] # components[id] =>
                /\ last'.kind = "component"
                /\ \E i \in 1..Len(last'.components) :
                    /\ last'.components[i].id = id
                    /\ \A j \in (i + 1)..Len(last'.components) :
                           last'.components[j].id # id
                    /\ components'[id] = last'.components[i]
        /\ \A n \in DOMAIN registry :
            registry'[n] # registry[n] =>
                /\ last'.kind = "type_registry"
                /\ \E i \in 1..Len(last'.types) :
                    /\ last'.types[i][1] = n
                    /\ \A j \in (i + 1)..Len(last'.types) : last'.types[j][1] # n
                    /\ registry'[n] = last'.types[i][2]
        /\ \A n \in DOMAIN componentNameToIdMap :
            componentNameToIdMap'[n] # componentNameToIdMap[n] =>
                /\ last'.kind = "component"
                /\ \E i \in 1..Len(last'.components) :
                    /\ last'.components[i].name = n
                    /\ \A j \in (i + 1)..Len(last'.components) :
                           last'.components[j].name # n
                    /\ componentNameToIdMap'[n] = last'.components[i].id
      ]_vars

\* a later component event has left the definitions of the full list in place
C13_Witness ==
    /\ last.kind = "component"
    /\ last.components = << ComponentDefs[NameId] >>
    /\ DOMAIN components = ComponentIds
    /\ \A i \in 1..Len(ComponentDefs) :
        /\ components[ComponentDefs[i].id] = ComponentDefs[i]
        /\ componentNameToIdMap[ComponentDefs[i].name] = ComponentDefs[i].id
    /\ registry # EmptyMap

\* the entities that received a change since their latest remove (or since
\* the start): the keys of the reference map
ChangedSinceRemove == DOMAIN ref

\* C14: e is a key of entities exactly when it has received a change since
\* its latest remove; a change always leaves e tracked, a remove always
\* leaves it unknown.
C14_TrackedIffChangedSinceRemove ==
    /\ DOMAIN entities = ChangedSinceRemove
    /\ IsChange => last.entity \in DOMAIN entities
    /\ IsRemove => last.entity \notin DOMAIN entities

\* a tracked entity is removed while the other one stays tracked
C14_Witness ==
    /\ IsRemove
    /\ WasTracked
    /\ last.entity \notin DOMAIN entities
    /\ entities # EmptyMap
    /\ DOMAIN entities = ChangedSinceRemove

C18_OtherEntitiesUntouched ==
    IsEntityItem =>
        \A e \in EntityIds \ {last.entity} :
            /\ Entry(entities, e) = Entry(before.entities, e)
            /\ Entry(childParentMap, e) = Entry(before.childParentMap, e)
            /\ Entry(entityNames, e) = Entry(before.entityNames, e)
            /\ Entry(componentValueCache, e) = Entry(before.componentValueCache, e)

\* an entity is removed while the id with its index and another generation
\* is tracked and keeps its record
C18_Witness ==
    /\ IsRemove
    /\ WasTracked
    /\ \E e \in DOMAIN entities :
        /\ e.index = last.entity.index
        /\ e.generation # last.entity.generation
        /\ entities[e] # << >>
        /\ e \in DOMAIN entityNames
        /\ e \in DOMAIN childParentMap

\* C19: a change event on a tracked entity whose removes hold (c, false)
\* and whose changes hold (c, d, v) leaves entities[e][c] present with value
\* v and disabled flag d.
C19_RemoveThenReAddEndsAdded ==
    (IsChange /\ WasTracked) =>
        \A i \in 1..Len(last.mutation.changes) :
            LET c == last.mutation.changes[i][1]
            IN  ( /\ \E j \in 1..Len(last.mutation.removes) :
                        last.mutation.removes[j] = <<c, FALSE>>
                  /\ \A k \in (i + 1)..Len(last.mutation.changes) :
                        last.mutation.changes[k][1] # c )
                => /\ RecHas(entities[last.entity], c)
                   /\ RecGet(entities[last.entity], c).value = last.mutation.changes[i][3]
                   /\ RecGet(entities[last.entity], c).disabled = last.mutation.changes[i][2]

\* the change event holds no changes and only removes entries for components
\* the record lacks
OnlyAbsentRemoves ==
    /\ IsChange
    /\ WasTracked
    /\ last.mutation.changes = << >>
    /\ last.mutation.removes # << >>
    /\ \A j \in 1..Len(last.mutation.removes) :
        ~RecHas(before.entities[last.entity], last.mutation.removes[j][1])

\* C20 (as claimed): a removes entry for a component the tracked entity's
\* record lacks changes nothing in entities, entityNames,
\* componentValueCache and childParentMap, whichever component it names.
C20_AbsentRemoveIsNoOp ==
    OnlyAbsentRemoves =>
        /\ entities = before.entities
        /\ entityNames = before.entityNames
        /\ componentValueCache = before.componentValueCache
        /\ childParentMap = before.childParentMap

\* C20 (amended): a removes entry for a component the tracked entity's
\* record lacks changes nothing in entities, entityNames and
\* componentValueCache; it leaves childParentMap as it was unless it names
\* the designated parent component, and then sets childParentMap[e] to null.
C20_AbsentRemoveOnlyClearsParent ==
    OnlyAbsentRemoves =>
        /\ entities = before.entities
        /\ entityNames = before.entityNames
        /\ componentValueCache = before.componentValueCache
        /\ childParentMap =
               IF Removes(last.mutation, ParentComp)
               THEN MapSet(before.childParentMap, last.entity, Null)
               ELSE before.childParentMap

\* an entity with components takes a disabling removes entry for a
\* component it lacks
C20_Witness ==
    /\ OnlyAbsentRemoves
    /\ last.mutation.removes[1][2]
    /\ before.entities[last.entity] # << >>
    /\ entities = before.entities
    /\ childParentMap = before.childParentMap

\* C21: for a tracked entity and a component c of its record, the removes
\* entry (c, true) keeps the slot with its value and disabled = true, the
\* removes entry (c, false) deletes the slot.
C21_DisableKeepsRemoveDeletes ==
    (IsChange /\ WasTracked) =>
        \A j \in 1..Len(last.mutation.removes) :
            LET c == last.mutation.removes[j][1]
                old == before.entities[last.entity]
                new == entities[last.entity]
            IN  ( /\ RecHas(old, c)
                  /\ ~Carries(last.mutation, c)
                  /\ \A k \in 1..Len(last.mutation.removes) :
                        k # j => last.mutation.removes[k][1] # c )
                => IF last.mutation.removes[j][2]
                   THEN /\ RecHas(new, c)
                        /\ RecGet(new, c).value = RecGet(old, c).value
                        /\ RecGet(new, c).disabled
                   ELSE ~RecHas(new, c)

\* an enabled component with the value 42 is disabled and keeps the value
C21_Witness ==
    /\ IsChange
    /\ WasTracked
    /\ Len(last.mutation.removes) = 1
    /\ last.mutation.removes[1][2]
    /\ RecHas(before.entities[last.entity], last.mutation.removes[1][1])
    /\ ~RecGet(before.entities[last.entity], last.mutation.removes[1][1]).disabled
    /\ RecGet(entities[last.entity], last.mutation.removes[1][1]) =
           [id |-> last.mutation.removes[1][1], value |-> Num("42"), disabled |-> TRUE]

\* the last changes entry of a mutation for component c
LastEntry(mutation, c) ==
    mutation.changes[CHOOSE i \in 1..Len(mutation.changes) :
        /\ mutation.changes[i][1] = c
        /\ \A k \in (i + 1)..Len(mutation.changes) : mutation.changes[k][1] # c]

\* the first changes entry of a mutation for component c
FirstEntry(mutation, c) ==
    mutation.changes[CHOOSE i \in 1..Len(mutation.changes) :
        /\ mutation.changes[i][1] = c
        /\ \A k \in 1..(i - 1) : mutation.changes[k][1] # c]

\* C22: a change for an entity without record builds the record from the
\* changes list alone: its keys are the ids of changes, each slot holds the
\* value and the disabled flag of its entry; the removes entries leave no
\* trace in the record or in childParentMap.
C22_NewRecordFromChangesOnly ==
    (IsChange /\ ~WasTracked) =>
        LET e == last.entity
            m == last.mutation
        IN  /\ e \in DOMAIN entities
            /\ RecKeySet(entities[e]) = {m.changes[i][1] : i \in 1..Len(m.changes)}
            /\ Len(entities[e]) = Cardinality(RecKeySet(entities[e]))
            /\ \A c \in RecKeySet(entities[e]) :
                /\ RecGet(entities[e], c).value = LastEntry(m, c)[3]
                /\ RecGet(entities[e], c).disabled = LastEntry(m, c)[2]
            /\ Entry(childParentMap, e) =
                   IF HasHiddenMarker(m) THEN {}
                   ELSE IF ParentComp # Undefined /\ Carries(m, ParentComp)
                             /\ ~FirstEntry(m, ParentComp)[2]
                   THEN {FirstEntry(m, ParentComp)[3]}
                   ELSE {Null}

\* an entity is created by a change that also removes a component of its
\* changes list: the component is in the record
C22_Witness ==
    /\ IsChange
    /\ ~WasTracked
    /\ last.mutation.removes # << >>
    /\ last.mutation.changes # << >>
    /\ last.mutation.removes[1][1] = last.mutation.changes[1][1]
    /\ RecHas(entities[last.entity], last.mutation.removes[1][1])

\* C23: a change event on a tracked entity that removes nothing and carries
\* only components the record already has leaves entityNames[e] as it was.
C23_ValueOnlyKeepsName ==
    ( /\ IsChange
      /\ WasTracked
      /\ last.mutation.removes = << >>
      /\ \A i \in 1..Len(last.mutation.changes) :
            RecHas(before.entities[last.entity], last.mutation.changes[i][1]) )
    => Entry(entityNames, last.entity) = Entry(before.entityNames, last.entity)

\* the value of the name component changes: the slot is written, the cached
\* name stays, though the resolver now gives another name
C23_Witness ==
    /\ IsChange
    /\ WasTracked
    /\ last.mutation.removes = << >>
    /\ NameComp # Undefined
    /\ Len(last.mutation.changes) = 1
    /\ last.mutation.changes[1][1] = NameComp
    /\ RecHas(before.entities[last.entity], NameComp)
    /\ writes[NameComp] = 1
    /\ entityNames[last.entity] = before.entityNames[last.entity]
    /\ entityNames[last.entity] # getEntityName(entities, last.entity)

\* C28: while the parent type is not registered no component id is taken
\* for the parent component: every childParentMap entry is null, and a
\* change event on a tracked entity leaves childParentMap as it was,
\* whatever it changes or removes.
C28_NoParentBeforeRegistration ==
    (PARENT \notin DOMAIN componentNameToIdMap) =>
        /\ \A e \in DOMAIN childParentMap : childParentMap[e] = Null
        /\ (IsChange /\ WasTracked) => childParentMap = before.childParentMap
        /\ (IsChange /\ ~WasTracked) => /\ last.entity \in DOMAIN entities
                                         /\ childParentMap[last.entity] = Null

\* before the registration a tracked entity takes the component that the
\* engine uses for the parent: the slot is written, the link stays null
C28_Witness ==
    /\ PARENT \notin DOMAIN componentNameToIdMap
    /\ IsChange
    /\ WasTracked
    /\ Carries(last.mutation, ParentId)
    /\ writes[ParentId] = 1
    /\ RecGet(entities[last.entity], ParentId).value = P
    /\ childParentMap[last.entity] = Null

\* C29: for an entity without record and a mutation without hidden marker,
\* a parent entry with disabled = true leaves childParentMap[e] = null, and
\* so does a mutation without parent entry.
C29_DisabledOrMissingParentIsNone ==
    ( /\ IsChange
      /\ ~WasTracked
      /\ ~HasHiddenMarker(last.mutation)
      /\ ParentComp # Undefined
      /\ \/ ~Carries(last.mutation, ParentComp)
         \/ FirstEntry(last.mutation, ParentComp)[2] )
    => /\ last.entity \in DOMAIN childParentMap
       /\ childParentMap[last.entity] = Null

\* an entity is created with the entry (parentComp, true, P)
C29_Witness ==
    /\ IsChange
    /\ ~WasTracked
    /\ ParentComp # Undefined
    /\ last.mutation.changes = << <<ParentComp, TRUE, P>> >>
    /\ RecGet(entities[last.entity], ParentComp).disabled
    /\ childParentMap[last.entity] = Null

\* the mutation of the latest step holds exactly one parent entry and no
\* hidden marker
OneParentEntry ==
    /\ IsChange
    /\ ParentComp # Undefined
    /\ ~HasHiddenMarker(last.mutation)
    /\ Cardinality({i \in 1..Len(last.mutation.changes) :
                       last.mutation.changes[i][1] = ParentComp}) = 1

\* C30: after a change event with the parent entry
\* (parentComp, d, P) and no hidden marker childParentMap[e] is the same
\* whether e had a record or not: it is what the creation of e gives, null
\* for d = true and P for d = false.
C30_ParentLinkIgnoresStatus ==
    OneParentEntry =>
        /\ last.entity \in DOMAIN childParentMap
        /\ childParentMap[last.entity] =
               IF FirstEntry(last.mutation, ParentComp)[2] THEN Null
               ELSE FirstEntry(last.mutation, ParentComp)[3]

\* the resolver has just returned the name of a tracked entity
Resolved == last.kind = "getEntityName" /\ last.entity \in DOMAIN entities

\* the record holds no component of the name type
NoNameComponent(rec) == NameComp = Undefined \/ ~RecHas(rec, NameComp)

\* the positions of the priority list whose component is in the record
PresentCommon(rec) ==
    {k \in 1..Len(COMMON_NAMES) :
        /\ COMMON_NAMES[k].name \in DOMAIN componentNameToIdMap
        /\ RecHas(rec, componentNameToIdMap[COMMON_NAMES[k].name])}

\* what the formatter of position k of the priority list makes of the record
Formatted(rec, k) ==
    CommonFormat(COMMON_NAMES[k],
                 RecGet(rec, componentNameToIdMap[COMMON_NAMES[k].name]).value)

\* the type of a component is known and lies in none of the engine's crates
OutsideEngine(c) ==
    /\ c \in DOMAIN components
    /\ \A j \in 1..Len(bevyCrates) : TypeCrate[components[c].name] # bevyCrates[j]

\* C24: when the name component yields nothing and the formatter of the
\* first common component of the record fails, the resolver returns what
\* the next common component of the record whose formatter succeeds gives.
C24_FailedFormatterFallsThrough ==
    Resolved =>
        LET rec == entities[last.entity]
            good == {k \in PresentCommon(rec) : Formatted(rec, k) # Thrown}
        IN  ( /\ NameStep(rec) = NoName
              /\ PresentCommon(rec) # {}
              /\ FirstIdx(PresentCommon(rec)) \notin good
              /\ good # {} )
            => last.name = Formatted(rec, FirstIdx(good))

\* C25: when the name component, the common components and the components
\* outside the engine's crates yield no name, the resolver returns the short
\* name of the component with the smallest id, as a number, among those with
\* a short name that are neither the parent nor the children type, and
\* "Entity" when there is none.
C25_SmallestIdWins ==
    Resolved =>
        LET rec == entities[last.entity]
            suits == {c \in RecKeySet(rec) :
                        /\ c \in DOMAIN components
                        /\ components[c].name \notin {PARENT, CHILDREN}}
        IN  ( /\ NameStep(rec) = NoName
              /\ CommonStep(rec) = NoName
              /\ \A c \in RecKeySet(rec) : ~OutsideEngine(c) )
            => last.name =
                  IF suits = {} THEN Str("Entity")
                  ELSE getComponentName(CHOOSE c \in suits : \A d \in suits : c <= d).short_name

C27_ResolverLeavesStateAlone ==
    [][ /\ last'.kind = "getEntityName" => UNCHANGED <<catalog, mirror>>
        /\ last'.kind = "updateEntityName" =>
              /\ UNCHANGED <<catalog, entities, childParentMap, componentValueCache>>
              /\ \A e \in (DOMAIN entityNames) \cup (DOMAIN entityNames') :
                    e # last'.entity => Entry(entityNames', e) = Entry(entityNames, e)
      ]_vars

\* the resolver has returned a name that differs from the one stored and
\* the caller has not yet written it: the stored names are as before
C27_Witness ==
    /\ last.kind = "getEntityName"
    /\ last.name \notin Entry(entityNames, last.entity)
    /\ Truthy(last.name)
    /\ entityNames = before.entityNames
    /\ entities = before.entities

\* C31: whenever componentValueCache[e][c] holds a signature, entities[e]
\* holds component c and the serialization of its value is that signature.
C31_CacheCoherent ==
    \A e \in DOMAIN componentValueCache :
        \A c \in DOMAIN componentValueCache[e] :
            /\ e \in DOMAIN entities
            /\ RecHas(entities[e], c)
            /\ JSONStringify(RecGet(entities[e], c).value) = componentValueCache[e][c]

\* the record of an entity holds a component registered under a
\* hidden-marker type
IsHiddenEntity(e) ==
    \E name \in {OBSERVER, SYSTEM_ID_MARKER} :
        /\ name \in DOMAIN componentNameToIdMap
        /\ RecHas(entities[e], componentNameToIdMap[name])

\* C32: an entity whose record holds a hidden-marker component has no
\* childParentMap entry.
C32_HiddenEntityHasNoParentEntry ==
    \A e \in DOMAIN entities : IsHiddenEntity(e) => e \notin DOMAIN childParentMap

\* C33: a type_registry, component or schedules event leaves entities,
\* childParentMap, entityNames and componentValueCache as they were, and an
\* entity event leaves components, registry and componentNameToIdMap as
\* they were.
C33_CatalogAndMirrorApart ==
    [][ /\ last'.kind \in {"type_registry", "component", "schedules"} => UNCHANGED mirror
        /\ last'.kind = "entity" => UNCHANGED catalog
      ]_vars

\* a component event registers the name type while a tracked entity holds
\* a value for it: the name stored stays the one derived before
C33_Witness ==
    /\ last.kind = "component"
    /\ NameComp # Undefined
    /\ \E e \in DOMAIN entities :
        /\ RecHas(entities[e], NameComp)
        /\ Truthy(RecGet(entities[e], NameComp).value)
        /\ entityNames[e] = Str("Entity")
        /\ getEntityName(entities, e) # entityNames[e]

\* C34: every key of childParentMap and every key of entityNames is a key
\* of entities.
C34_NoOrphanedBookkeeping ==
    /\ DOMAIN childParentMap \subseteq DOMAIN entities
    /\ DOMAIN entityNames \subseteq DOMAIN entities

\* an entity with a parent link and a name is removed while another entity
\* stays tracked with its link and name
C34_Witness ==
    /\ IsRemove
    /\ last.entity \in DOMAIN before.childParentMap
    /\ last.entity \in DOMAIN before.entityNames
    /\ last.entity \notin DOMAIN childParentMap
    /\ last.entity \notin DOMAIN entityNames
    /\ \E other \in DOMAIN entities :
        other \in DOMAIN childParentMap /\ other \in DOMAIN entityNames

\* C35: the updates emitted as well-formed JSON are the updates handed to
\* process_update followed by those posted and not yet handled, in the
\* order of emission; a call of process_update starts only when every item
\* of the batches before it has been applied; and every update emitted is
\* in the end applied to its last item.
C35_UpdatesDeliveredOnceInOrder ==
    /\ [](received \o bridge.queue = bridge.emitted)
    /\ [][ received' # received =>
             /\ pending = << >>
             /\ applied = Flatten(received)
             /\ received' = Append(received, bridge'.emitted[Len(received) + 1]) ]_vars
    /\ \A i \in 1..MaxBatch :
          (Len(bridge.emitted) >= i)
              ~> (/\ Len(received) >= i
                  /\ Len(applied) >= Len(Flatten(SubSeq(bridge.emitted, 1, i))))

\* in worker mode an update waits among the messages while the batch
\* before it is being applied
C35_Witness ==
    /\ bridge.mode = "worker"
    /\ Len(received) = 1
    /\ Len(received[1]) = 2
    /\ Len(pending) = 1
    /\ Len(bridge.queue) = 1
    /\ bridge.errors = 1

\* C36: at most one animation frame callback is pending, and rafId is the
\* id of the pending callback, null exactly when none is pending
C36_OneFrameCallbackPending ==
    /\ Cardinality(worker.scheduled) <= 1
    /\ worker.rafId = NoRaf <=> worker.scheduled = {}
    /\ worker.rafId # NoRaf => worker.scheduled = {worker.rafId}

\* a frame request made by startRunning before init is still pending when
\* the primary window is created
C36_Witness ==
    /\ worker.primary
    /\ worker.resumed
    /\ worker.frameIndex = 0
    /\ worker.nextId = 2
    /\ worker.scheduled = {1}

\* C37: with a non-zero app handle and the primary window created, a frame
\* callback is pending exactly when the loop is not stopped; and no engine
\* frame is entered while it is stopped
C37_LoopRunsIffNotStopped ==
    /\ []((worker.appHandle # 0 /\ worker.primary)
              => (worker.scheduled # {} <=> ~worker.isStoppedRunning))
    /\ [][ worker'.frameIndex # worker.frameIndex
              => (~worker.isStoppedRunning /\ ~worker'.isStoppedRunning) ]_vars

\* after a stopRunning and a startRunning the loop has entered a frame and
\* the next callback is pending
C37_Witness ==
    /\ worker.appHandle # 0
    /\ worker.primary
    /\ worker.resumed
    /\ ~worker.isStoppedRunning
    /\ worker.frameIndex >= 1
    /\ worker.rafId = 3
    /\ worker.scheduled = {3}

\* C38: at most one call of registerCanvas is between its start of the
\* initialization and the end of it, at most one controller constructed is
\* not given up, and it is the controller of the manager; a controller is
\* constructed only when none exists and none is loading; and a failed
\* initialization leaves no controller and the start flag cleared
C38_OneControllerAtATime ==
    /\ [](Cardinality(InFlight) <= 1)
    /\ [](/\ Cardinality(Live) <= 1
          /\ \A k \in Live : manager.controller = k
          /\ manager.controller # 0 => manager.controller \in Live)
    /\ [][ Len(manager'.controllers) > Len(manager.controllers)
              => (/\ ~manager.loadingInProgress
                  /\ manager.controller = 0
                  /\ InFlight' = InFlight) ]_vars
    /\ [][ Live' # Live /\ Live' \subseteq Live
              => (/\ manager'.controller = 0
                  /\ ~manager'.initializationStarted
                  /\ ~manager'.loadingInProgress) ]_vars

\* after a failed initialization a later registration has built the second
\* controller, while a registration in between started nothing
C38_Witness ==
    /\ Len(manager.controllers) = 2
    /\ manager.controllers[1].state = "failed"
    /\ manager.controllers[2].state = "ready"
    /\ manager.controller = 2
    /\ Len(manager.calls) = 3

\* the canvases for which init or createAdditionalWindow was posted
Posted ==
    UNION {{manager.controllers[k].posted[i].canvasId :
                i \in DOMAIN manager.controllers[k].posted} : k \in Live}

\* C39: once the initialization has succeeded, every registered canvas
\* gets its init or createAdditionalWindow message
C39_RegisteredCanvasInitialized ==
    \A canvas \in 1..MaxCalls :
        [](( /\ \E i \in DOMAIN manager.pendingCanvases : manager.pendingCanvases[i] = canvas
             /\ manager.isInitialized )
              => <>(canvas \in Posted))

\* C40: the display form of an id is the decimal of id mod 2^HalfBits, a
\* "v", and the decimal of id div 2^HalfBits, and no other id has the same
\* display form
C40_DisplayFormIsIndexVGeneration ==
    last.kind = "prettyEntityId" =>
        /\ last.shown = Decimal(last.id % Half) \o << "v" >> \o Decimal(last.id \div Half)
        /\ \A other \in PackedIds : other # last.id => prettyEntityId(other) # last.shown

\* index 1 of generation 11 is shown as 1v11; index 11 of generation 1 has
\* the same characters in another order
C40_Witness ==
    /\ last.kind = "prettyEntityId"
    /\ last.id % Half = 1
    /\ last.id \div Half = 11
    /\ last.shown = << "1", "v", "1", "1" >>

\* the batch of the latest call of process_update
CurrentBatch == received[Len(received)]

\* the latest step applied an item of unknown kind or an entity item whose
\* mutation is of unknown kind
UnknownKindApplied ==
    \/ last.kind = "unknown"
    \/ last.kind = "entity" /\ last.mutation.kind \notin {"change", "remove"}

\* C15: process_update reaches the end of every batch: while items are left
\* the loop can take the next one, and when none is left every item of every
\* batch has been applied; a step that applies an item of unknown kind, or
\* an entity item with a mutation of unknown kind, changes nothing in the
\* Catalog and the Mirror.
C15_UnknownSkippedBatchCompleted ==
    /\ [](pending # << >> => ENABLED BatchNext)
    /\ [](pending = << >> => applied = Flatten(received))
    /\ [][ (nEvents' # nEvents /\ UnknownKindApplied')
            => UNCHANGED <<catalog, mirror>> ]_vars

\* a batch of an item of unknown kind and the creation of an entity has been
\* processed to its end: the entity is tracked
C15_Witness ==
    /\ received # << >>
    /\ pending = << >>
    /\ Len(CurrentBatch) = 2
    /\ CurrentBatch[1].kind = "unknown"
    /\ CurrentBatch[2] = last
    /\ IsChange
    /\ ~WasTracked
    /\ last.entity \in DOMAIN entities

\* C16: the items are applied in the order of the batches and, within a
\* batch, in array order, none skipped: what has been applied, followed by
\* the rest of the batch at hand, is the concatenation of the batches
\* received.  An item finds the effects of the items before it: after the
\* batch [component definitions, creation of e with (parentComp, false, v)]
\* childParentMap[e] = v.  A call of process_update by itself changes
\* nothing in the Catalog and the Mirror, so a batch boundary leaves no
\* trace and two batches have the effect of their concatenation.
C16_ArrayOrderAcrossBatches ==
    /\ [](applied \o pending = Flatten(received))
    /\ []( ( /\ received # << >>
             /\ pending = << >>
             /\ Len(CurrentBatch) = 2
             /\ CurrentBatch[1].kind = "component"
             /\ \E i \in 1..Len(CurrentBatch[1].components) :
                    CurrentBatch[1].components[i].name = PARENT
             /\ CurrentBatch[2] = last
             /\ IsChange
             /\ ~WasTracked
             /\ Len(last.mutation.changes) = 1
             /\ last.mutation.changes[1][1] = ParentComp
             /\ ~last.mutation.changes[1][2] )
           => /\ last.entity \in DOMAIN childParentMap
              /\ childParentMap[last.entity] = last.mutation.changes[1][3] )
    /\ [][ pending' # pending =>
              \/ /\ pending = << >>
                 /\ UNCHANGED <<catalog, mirror, applied>>
              \/ /\ pending # << >>
                 /\ applied' = Append(applied, Head(pending))
                 /\ last' = Head(pending)
                 /\ pending' = Tail(pending) ]_vars

\* the batch [component definitions, creation of an entity with a parent]
\* was processed after an earlier batch: the parent link is set
C16_Witness ==
    /\ Len(received) = 2
    /\ pending = << >>
    /\ Len(CurrentBatch) = 2
    /\ CurrentBatch[1].kind = "component"
    /\ CurrentBatch[2] = last
    /\ IsChange
    /\ ~WasTracked
    /\ ParentComp # Undefined
    /\ childParentMap[last.entity] = P
    /\ applied = received[1] \o received[2]

====
